---- MODULE Spec2Model ----
(***************************************************************************)
(* Task state machine of the TBOT task tracker (src/tbot/tasks.py) driven  *)
(* by the chat handlers of src/tbot/bot.py.                                *)
(*                                                                         *)
(* The store TASKS maps task identifiers to Task records.  Handlers touch  *)
(* exactly one task and tasks never read each other, so the lifecycle      *)
(* specification Spec follows one task from its creation on.  Time is an   *)
(* abstract integer clock; datetime.now() is the variable now.             *)
(***************************************************************************)
EXTENDS Integers, FiniteSets, Sequences, TLC

VARIABLES TASKS, task_id_counter, now, issued, last, assigned, task_data, created, call, task_updates, fsm, awaiting

\* The dialogue state of the postponement and the handlers suspended at an
\* await.
sessions == <<task_updates, fsm, awaiting>>

vars == <<TASKS, task_id_counter, now, issued, last, assigned, task_data, created, call, task_updates, fsm, awaiting>>

(* ------------------------------ bounds --------------------------------- *)
MaxTime == 1
MaxWorkgroup == 1
MaxTaskId == 2
MaxEntries == 2

Users == {1, 2, 3}
\* The code compares user identifiers only for equality, so the author is
\* user 1 without loss of generality.
Authors == {1}
Times == 0..MaxTime
\* A due date after MaxTime compares with every clock value as MaxTime does.
DueDates == Times

(* ------------------------- values of the code -------------------------- *)
NoUser == 0
NoDate == -1
NoStatus == "NONE"

ST_NEW == "NEW"
ST_ACTIVE == "ACTIVE"
ST_PAUSED == "PAUSED"
ST_IN_REVIEW == "IN_REVIEW"
ST_COMPLETED == "COMPLETED"
ST_OVERDUE == "OVERDUE"

TaskStatus == {ST_NEW, ST_ACTIVE, ST_PAUSED, ST_IN_REVIEW, ST_COMPLETED, ST_OVERDUE}

(* ------------------------- src/tbot/tasks.py --------------------------- *)

is_user_involved(task, user_id) ==
    \/ user_id = task.author_id
    \/ user_id = task.responsible_user_id
    \/ user_id \in task.workgroup

get_task_participants(task) ==
    {task.author_id}
        \cup (IF task.responsible_user_id # NoUser
              THEN {task.responsible_user_id} ELSE {})
        \cup task.workgroup

ensure_participant_entry(task, user_id) ==
    IF user_id \notin DOMAIN task.participant_statuses
    THEN [task EXCEPT !.participant_statuses = @ @@ (user_id :> ST_NEW)]
    ELSE task

\* The read after ensure_participant_entry: an absent entry reads as ST_NEW.
get_participant_status(task, user_id) ==
    ensure_participant_entry(task, user_id).participant_statuses[user_id]

\* get_personal_status_for_user: the participant's own status, and the
\* stored status of the task for anybody else.
get_personal_status_for_user(task, user_id) ==
    IF user_id = NoUser THEN task.status
    ELSE IF user_id \notin get_task_participants(task) THEN task.status
    ELSE ensure_participant_entry(task, user_id).participant_statuses[user_id]

non_author_participants(task) ==
    {participant_id \in get_task_participants(task) :
        participant_id # task.author_id}

\* calculate_overall_status with the PAUSED test before the ACTIVE test.
calculate_overall_status_paused_first(task) ==
    LET participants == non_author_participants(task)
        st(p) == get_participant_status(task, p)
    IN  IF task.awaiting_author_confirmation /\ task.pending_confirmations # {}
        THEN ST_IN_REVIEW
        ELSE IF participants = {} THEN ST_NEW
        ELSE IF \A p \in participants : st(p) = ST_COMPLETED THEN ST_COMPLETED
        ELSE IF \E p \in participants : st(p) = ST_PAUSED THEN ST_PAUSED
        ELSE IF \E p \in participants : st(p) = ST_ACTIVE THEN ST_ACTIVE
        ELSE ST_NEW

\* calculate_overall_status with the COMPLETED test before the pending
\* confirmations are looked at.
calculate_overall_status_completed_first(task) ==
    LET participants == non_author_participants(task)
        st(p) == get_participant_status(task, p)
    IN  IF participants # {} /\ \A p \in participants : st(p) = ST_COMPLETED
        THEN ST_COMPLETED
        ELSE IF task.awaiting_author_confirmation
                    /\ task.pending_confirmations # {}
        THEN ST_IN_REVIEW
        ELSE IF participants = {} THEN ST_NEW
        ELSE IF \E p \in participants : st(p) = ST_ACTIVE THEN ST_ACTIVE
        ELSE IF \E p \in participants : st(p) = ST_PAUSED THEN ST_PAUSED
        ELSE ST_NEW

\* calculate_overall_status with the NEW test before the PAUSED test.
calculate_overall_status_new_first(task) ==
    LET participants == non_author_participants(task)
        st(p) == get_participant_status(task, p)
    IN  IF task.awaiting_author_confirmation /\ task.pending_confirmations # {}
        THEN ST_IN_REVIEW
        ELSE IF participants = {} THEN ST_NEW
        ELSE IF \A p \in participants : st(p) = ST_COMPLETED THEN ST_COMPLETED
        ELSE IF \E p \in participants : st(p) = ST_ACTIVE THEN ST_ACTIVE
        ELSE IF \E p \in participants : st(p) = ST_NEW THEN ST_NEW
        ELSE IF \E p \in participants : st(p) = ST_PAUSED THEN ST_PAUSED
        ELSE ST_NEW

calculate_overall_status(task) ==
    LET participants == non_author_participants(task)
        st(p) == get_participant_status(task, p)
    IN  IF task.awaiting_author_confirmation /\ task.pending_confirmations # {}
        THEN ST_IN_REVIEW
        ELSE IF participants = {} THEN ST_NEW
        ELSE IF \A p \in participants : st(p) = ST_COMPLETED THEN ST_COMPLETED
        ELSE IF \E p \in participants : st(p) = ST_ACTIVE THEN ST_ACTIVE
        ELSE IF \E p \in participants : st(p) = ST_PAUSED THEN ST_PAUSED
        ELSE IF \E p \in participants : st(p) = ST_NEW THEN ST_NEW
        ELSE ST_NEW

sync_author_status(task) ==
    LET participants == non_author_participants(task)
        t1 == ensure_participant_entry(task, task.author_id)
        st(p) == get_participant_status(task, p)
        author_is(s) ==
            [t1 EXCEPT !.participant_statuses[task.author_id] = s]
    IN  IF participants = {} THEN task
        ELSE IF task.awaiting_author_confirmation
                /\ task.pending_confirmations # {}
        THEN author_is(ST_IN_REVIEW)
        ELSE IF \E p \in participants : st(p) = ST_ACTIVE THEN author_is(ST_ACTIVE)
        ELSE IF \E p \in participants : st(p) = ST_PAUSED THEN author_is(ST_PAUSED)
        ELSE IF \A p \in participants : st(p) = ST_COMPLETED
        THEN author_is(ST_COMPLETED)
        ELSE author_is(ST_NEW)

\* recalc_task_status without the closing _sync_author_status.
recalc_task_status_without_sync(task) ==
    LET new_status == calculate_overall_status(task)
    IN  IF task.status = ST_OVERDUE
        THEN [task EXCEPT !.status_before_overdue = new_status]
        ELSE [task EXCEPT !.status = new_status,
                          !.status_before_overdue = NoStatus]

\* recalc_task_status that surfaces the computed status of an OVERDUE task
\* and leaves its snapshot in place.
recalc_task_status_surfacing(task) ==
    LET new_status == calculate_overall_status(task)
        t1 == IF task.status = ST_OVERDUE
              THEN [task EXCEPT !.status = new_status]
              ELSE [task EXCEPT !.status = new_status,
                                !.status_before_overdue = NoStatus]
    IN  sync_author_status(t1)

recalc_task_status(task) ==
    LET new_status == calculate_overall_status(task)
        t1 == IF task.status = ST_OVERDUE
              THEN [task EXCEPT !.status_before_overdue = new_status]
              ELSE [task EXCEPT !.status = new_status,
                                !.status_before_overdue = NoStatus]
    IN  sync_author_status(t1)

\* refresh_task_status that leaves the overlay with the default NEW in
\* place of the status kept from before the task went overdue.
refresh_task_status_restoring_new(task, reference) ==
    IF task.status = ST_COMPLETED THEN task
    ELSE IF task.due_date # NoDate /\ task.due_date < reference
    THEN [task EXCEPT
            !.status_before_overdue =
                IF task.status # ST_OVERDUE
                THEN calculate_overall_status(task) ELSE @,
            !.status = ST_OVERDUE]
    ELSE IF task.status = ST_OVERDUE
    THEN [task EXCEPT !.status = ST_NEW, !.status_before_overdue = NoStatus]
    ELSE recalc_task_status(task)

\* refresh_task_status without the early return on a COMPLETED task.
refresh_task_status_without_completed_guard(task, reference) ==
    IF task.due_date # NoDate /\ task.due_date < reference
    THEN [task EXCEPT
            !.status_before_overdue =
                IF task.status # ST_OVERDUE
                THEN calculate_overall_status(task) ELSE @,
            !.status = ST_OVERDUE]
    ELSE IF task.status = ST_OVERDUE
    THEN [task EXCEPT
            !.status = IF task.status_before_overdue # NoStatus
                       THEN task.status_before_overdue
                       ELSE calculate_overall_status(task),
            !.status_before_overdue = NoStatus]
    ELSE recalc_task_status(task)

refresh_task_status(task, reference) ==
    IF task.status = ST_COMPLETED THEN task
    ELSE IF task.due_date # NoDate /\ task.due_date < reference
    THEN [task EXCEPT
            !.status_before_overdue =
                IF task.status # ST_OVERDUE
                THEN calculate_overall_status(task) ELSE @,
            !.status = ST_OVERDUE]
    ELSE IF task.status = ST_OVERDUE
    THEN LET previous_status ==
                 IF task.status_before_overdue # NoStatus
                 THEN task.status_before_overdue
                 ELSE calculate_overall_status(task)
         IN  IF task.due_date # NoDate /\ task.due_date >= reference
             THEN [task EXCEPT !.status = previous_status,
                               !.status_before_overdue = NoStatus]
             ELSE IF task.due_date = NoDate
             THEN [task EXCEPT !.status = previous_status,
                               !.status_before_overdue = NoStatus]
             ELSE task
    ELSE recalc_task_status(task)

\* set_participant_status that writes the status to every participant
\* other than the author.
set_participant_status_for_all(task, user_id, status) ==
    LET t1 == ensure_participant_entry(task, user_id)
        t2 == [t1 EXCEPT !.participant_statuses =
                  [p \in DOMAIN @ |->
                      IF p # task.author_id \/ p = user_id
                      THEN status ELSE @[p]]]
    IN  IF user_id # task.author_id THEN sync_author_status(t2) ELSE t2

set_participant_status(task, user_id, status) ==
    LET t1 == ensure_participant_entry(task, user_id)
        t2 == [t1 EXCEPT !.participant_statuses[user_id] = status]
    IN  IF user_id # task.author_id THEN sync_author_status(t2) ELSE t2

RECURSIVE set_each_participant_status(_, _, _)
set_each_participant_status(task, todo, status) ==
    IF todo = {} THEN task
    ELSE LET participant_id == CHOOSE p \in todo : TRUE
         IN  set_each_participant_status(
                 set_participant_status(task, participant_id, status),
                 todo \ {participant_id}, status)

set_all_participants_status(task, status) ==
    sync_author_status(
        set_each_participant_status(task, get_task_participants(task), status))

add_pending_confirmation(task, user_id) ==
    recalc_task_status(
        [task EXCEPT !.pending_confirmations = @ \cup {user_id},
                     !.awaiting_author_confirmation = TRUE])

\* remove_pending_confirmation that drops the flag although other
\* participants are still pending.
remove_pending_confirmation_dropping_flag(task, user_id) ==
    recalc_task_status(
        [task EXCEPT !.pending_confirmations = @ \ {user_id},
                     !.awaiting_author_confirmation = FALSE])

remove_pending_confirmation(task, user_id) ==
    LET pending == task.pending_confirmations \ {user_id}
    IN  recalc_task_status(
            [task EXCEPT !.pending_confirmations = pending,
                         !.awaiting_author_confirmation =
                             IF pending = {} THEN FALSE ELSE @])

clear_pending_confirmations(task) ==
    recalc_task_status(
        [task EXCEPT !.pending_confirmations = {},
                     !.awaiting_author_confirmation = FALSE])

\* create_task without the closing refresh_task_status.
create_task_without_refresh(task_id, author_id, due_date, responsible_user_id, workgroup, reference) ==
    LET participants ==
            {author_id}
                \cup (IF responsible_user_id # NoUser
                      THEN {responsible_user_id} ELSE {})
                \cup workgroup
    IN  [task_id |-> task_id,
         author_id |-> author_id,
         due_date |-> due_date,
         status |-> ST_NEW,
         responsible_user_id |-> responsible_user_id,
         workgroup |-> workgroup,
         completed_date |-> NoDate,
         current_executor_id |-> NoUser,
         status_before_overdue |-> NoStatus,
         participant_statuses |-> [p \in participants |-> ST_NEW],
         pending_confirmations |-> {},
         awaiting_author_confirmation |-> FALSE]

create_task(task_id, author_id, due_date, responsible_user_id, workgroup, reference) ==
    LET participants ==
            {author_id}
                \cup (IF responsible_user_id # NoUser
                      THEN {responsible_user_id} ELSE {})
                \cup workgroup
        task == [task_id |-> task_id,
                 author_id |-> author_id,
                 due_date |-> due_date,
                 status |-> ST_NEW,
                 responsible_user_id |-> responsible_user_id,
                 workgroup |-> workgroup,
                 completed_date |-> NoDate,
                 current_executor_id |-> NoUser,
                 status_before_overdue |-> NoStatus,
                 participant_statuses |-> [p \in participants |-> ST_NEW],
                 pending_confirmations |-> {},
                 awaiting_author_confirmation |-> FALSE]
    IN  refresh_task_status(task, reference)

\* create_task that does not advance _task_id_counter.
advance_task_id_counter_stuck(counter) == counter

\* create_task: _task_id_counter += 1.
advance_task_id_counter(counter) == counter + 1

delete_task(tasks, task_id) ==
    [id \in DOMAIN tasks \ {task_id} |-> tasks[id]]

(* -------------------------- src/tbot/bot.py ---------------------------- *)

detect_user_role(task, user_id) ==
    IF user_id = task.responsible_user_id THEN "responsible"
    ELSE IF user_id = task.author_id THEN "author"
    ELSE IF user_id \in task.workgroup THEN "workgroup"
    ELSE "viewer"

get_allowed_reminder_targets(task, actor_id) ==
    LET role == detect_user_role(task, actor_id)
    IN  IF role \notin {"author", "responsible"} THEN {}
        ELSE (get_task_participants(task) \ {actor_id})
                 \ (IF role = "responsible" THEN {task.author_id} ELSE {})

can_manage_task(task, user_id) ==
    \/ task.current_executor_id = user_id
    \/ task.responsible_user_id = user_id
    \/ task.author_id = user_id

\* The keys of USERS (users.py): every user of the model is registered.
USERS == Users

\* notify_task_participants: the users the notification is sent to.
notify_task_participants(task, actor_id) ==
    {recipient_id \in get_task_participants(task) : recipient_id \in USERS}

\* build_task_detail_text without the refresh of the overlay.
build_task_detail_text_without_refresh(task, reference) == task

\* The status line of the detail card: the overlay is refreshed first.
build_task_detail_text(task, reference) ==
    refresh_task_status(task, reference)

\* render_task_detail: the card text (which refreshes the task).
render_task_detail(task, reference) ==
    build_task_detail_text(task, reference)

\* send_task_reminder: the reminder text (which refreshes the task).
send_task_reminder(task, reference) ==
    refresh_task_status(task, reference)


\* Buttons of the detail card that exist only in some task states: the
\* "complete" button of the current executor and the author's "confirm"
\* buttons, one per pending participant.
task_detail_kb(task, viewer_id) ==
    LET is_author == viewer_id = task.author_id
        is_current_executor == task.current_executor_id = viewer_id
        show_controls == \/ task.status # ST_COMPLETED
                         \/ task.awaiting_author_confirmation
    IN  [complete |-> IF show_controls /\ is_current_executor
                      THEN {viewer_id} ELSE {},
         confirm  |-> IF is_author
                      THEN {<<viewer_id, p>> : p \in task.pending_confirmations}
                      ELSE {}]

\* The review notification sent when a workgroup member completes: the
\* responsible user receives a "confirm" button for the performer.
build_review_notification_keyboard(task, performer_id) ==
    {<<recipient_id, performer_id>> :
        recipient_id \in {r \in get_task_participants(task) :
            /\ r # performer_id
            /\ r \in {task.author_id, task.responsible_user_id}
            /\ r = task.responsible_user_id}}

\* handle_take_task without the rejection while a confirmation is pending.
take_task_allowed_while_pending(task, user_id) ==
    /\ is_user_involved(task, user_id)
    /\ user_id # task.author_id
    /\ task.status # ST_COMPLETED

\* handle_take_task without the rejection of the author.
take_task_allowed_for_author(task, user_id) ==
    /\ is_user_involved(task, user_id)
    /\ ~task.awaiting_author_confirmation
    /\ task.status # ST_COMPLETED

(* handle_take_task *)
take_task_allowed(task, user_id) ==
    /\ is_user_involved(task, user_id)
    /\ user_id # task.author_id
    /\ ~task.awaiting_author_confirmation
    /\ task.status # ST_COMPLETED

\* The writes of handle_take_task, all of them before its first await.
take_task_writes(task, user_id) ==
    LET t1 == [task EXCEPT !.current_executor_id = user_id]
        t2 == set_participant_status(t1, user_id, ST_ACTIVE)
        t3 == remove_pending_confirmation(t2, user_id)
        t4 == [t3 EXCEPT !.completed_date = NoDate,
                         !.status_before_overdue = NoStatus]
    IN  recalc_task_status(t4)

handle_take_task(task, user_id, reference) ==
    render_task_detail(take_task_writes(task, user_id), reference)

\* handle_pause_task that leaves current_executor_id as it is.
handle_pause_task_keeping_executor(task, user_id, reference) ==
    LET t1 == set_participant_status(task, user_id, ST_PAUSED)
        t3 == [t1 EXCEPT !.status_before_overdue = NoStatus]
        t4 == recalc_task_status(t3)
    IN  render_task_detail(t4, reference)

(* handle_pause_task *)
pause_task_allowed(task, user_id) == can_manage_task(task, user_id)

\* The writes of handle_pause_task, all of them before its first await.
pause_task_writes(task, user_id) ==
    LET t1 == set_participant_status(task, user_id, ST_PAUSED)
        t2 == IF t1.current_executor_id = user_id
              THEN [t1 EXCEPT !.current_executor_id = NoUser] ELSE t1
        t3 == [t2 EXCEPT !.status_before_overdue = NoStatus]
    IN  recalc_task_status(t3)

handle_pause_task(task, user_id, reference) ==
    render_task_detail(pause_task_writes(task, user_id), reference)

\* handle_complete_task that does not send the participant to review.
handle_complete_task_without_review(task, user_id, reference) ==
    LET t1 == set_participant_status(task, user_id, ST_COMPLETED)
        t2 == IF t1.current_executor_id = user_id
              THEN [t1 EXCEPT !.current_executor_id = NoUser] ELSE t1
        t3 == [t2 EXCEPT !.completed_date = NoDate,
                         !.status_before_overdue = NoStatus]
    IN  refresh_task_status(recalc_task_status(t3), reference)

(* handle_complete_task *)
complete_task_allowed(task, user_id) ==
    /\ can_manage_task(task, user_id)
    /\ detect_user_role(task, user_id) # "author"

\* The writes of handle_complete_task, all of them before its first await.
complete_task_writes(task, user_id) ==
    LET t1 == set_participant_status(task, user_id, ST_COMPLETED)
        t2 == IF t1.current_executor_id = user_id
              THEN [t1 EXCEPT !.current_executor_id = NoUser] ELSE t1
        t3 == [t2 EXCEPT !.completed_date = NoDate,
                         !.status_before_overdue = NoStatus]
    IN  add_pending_confirmation(t3, user_id)

handle_complete_task(task, user_id, reference) ==
    render_task_detail(complete_task_writes(task, user_id), reference)

(* handle_reset_task_confirm *)
reset_task_allowed(task, user_id) == user_id = task.author_id

\* The writes of handle_reset_task_confirm, all of them before its first
\* await.
reset_task_writes(task, user_id) ==
    LET t1 == set_all_participants_status(task, ST_NEW)
        t2 == [t1 EXCEPT !.current_executor_id = NoUser,
                         !.completed_date = NoDate,
                         !.status_before_overdue = NoStatus]
    IN  clear_pending_confirmations(t2)

handle_reset_task_confirm(task, user_id, reference) ==
    render_task_detail(reset_task_writes(task, user_id), reference)

(* handle_author_completion *)
author_completion_allowed(task, user_id) == user_id = task.author_id

\* The writes of handle_author_completion, all of them before its first
\* await.
author_completion_writes(task, user_id, reference) ==
    LET t1 == set_all_participants_status(task, ST_COMPLETED)
        t2 == [t1 EXCEPT !.completed_date = reference,
                         !.current_executor_id = NoUser,
                         !.status_before_overdue = NoStatus]
    IN  clear_pending_confirmations(t2)

handle_author_completion(task, user_id, reference) ==
    render_task_detail(author_completion_writes(task, user_id, reference), reference)

\* handle_return_task that keeps the completion timestamp.
handle_return_task_keeping_date(task, user_id, reference) ==
    LET t1 == set_all_participants_status(task, ST_NEW)
        t2 == [t1 EXCEPT !.current_executor_id = NoUser,
                         !.status_before_overdue = NoStatus]
        t3 == clear_pending_confirmations(t2)
    IN  render_task_detail(t3, reference)

(* handle_return_task *)
return_task_allowed(task, user_id) == user_id = task.author_id

\* The writes of handle_return_task, all of them before its first await.
return_task_writes(task, user_id) ==
    LET t1 == set_all_participants_status(task, ST_NEW)
        t2 == [t1 EXCEPT !.current_executor_id = NoUser,
                         !.completed_date = NoDate,
                         !.status_before_overdue = NoStatus]
    IN  clear_pending_confirmations(t2)

handle_return_task(task, user_id, reference) ==
    render_task_detail(return_task_writes(task, user_id), reference)

(* handle_postpone_task opens the session; process_postpone_reason applies *)
postpone_task_allowed(task, user_id) ==
    \/ can_manage_task(task, user_id)
    \/ user_id \in task.workgroup

\* The writes of process_postpone_reason, all of them before its first
\* await on the path that applies the postponement.
postpone_reason_writes(task, user_id, new_due_date) ==
    LET t1 == [task EXCEPT !.due_date = new_due_date,
                           !.status_before_overdue = NoStatus]
        role == detect_user_role(t1, user_id)
    IN  IF role \in {"author", "responsible"}
        THEN recalc_task_status(t1)
        ELSE LET a == set_participant_status(t1, user_id, ST_PAUSED)
                 b == IF a.current_executor_id = user_id
                      THEN [a EXCEPT !.current_executor_id = NoUser]
                      ELSE a
             IN  recalc_task_status(b)

process_postpone_reason(task, user_id, new_due_date, reference) ==
    build_task_detail_text(postpone_reason_writes(task, user_id, new_due_date), reference)

\* handle_confirm_completion that lets every involved user confirm.
confirm_completion_allowed_for_involved(task, user_id) ==
    is_user_involved(task, user_id)

(* handle_confirm_completion *)
confirm_completion_allowed(task, user_id) ==
    user_id \in {task.author_id, task.responsible_user_id}

\* The writes of handle_confirm_completion, all of them before its first
\* await.
confirm_completion_writes(task, user_id, participant_id, reference) ==
    LET t1 == set_participant_status(task, participant_id, ST_COMPLETED)
        t2 == IF t1.current_executor_id = participant_id
              THEN [t1 EXCEPT !.current_executor_id = NoUser] ELSE t1
        t3 == remove_pending_confirmation(t2, participant_id)
        participants == non_author_participants(t3)
        all_completed ==
            \A member_id \in participants :
                get_participant_status(t3, member_id) = ST_COMPLETED
    IN  IF all_completed /\ participants # {}
        THEN [t3 EXCEPT !.completed_date = reference,
                        !.status_before_overdue = NoStatus]
        ELSE IF ~all_completed
        THEN [t3 EXCEPT !.completed_date = NoDate]
        ELSE t3

handle_confirm_completion(task, user_id, participant_id, reference) ==
    render_task_detail(confirm_completion_writes(task, user_id, participant_id, reference), reference)

\* handle_delete_task that lets everyone who manages the task delete it.
delete_task_allowed_for_managers(task, user_id) == can_manage_task(task, user_id)

(* handle_delete_task *)
delete_task_allowed(task, user_id) == task.author_id = user_id

(* handle_remind_all *)
remind_all_allowed(task, user_id) ==
    get_allowed_reminder_targets(task, user_id) # {}

handle_remind_all(task, user_id, reference) ==
    render_task_detail(send_task_reminder(task, reference), reference)

(* handle_task_detail *)
handle_task_detail(task, viewer_id, reference) ==
    render_task_detail(task, reference)

refresh_all_tasks_statuses(tasks, reference) ==
    [id \in DOMAIN tasks |-> refresh_task_status(tasks[id], reference)]

\* get_tasks_for_view: the store is refreshed before the view is built
\* (for the view "my", get_involved_tasks refreshes it once more).
get_tasks_for_view(tasks, reference) ==
    refresh_all_tasks_statuses(tasks, reference)

\* build_tasks_list_text refreshes every task it prints.
build_tasks_list_text(tasks, reference) ==
    [id \in DOMAIN tasks |-> refresh_task_status(tasks[id], reference)]

\* get_main_message: refresh_all_tasks_statuses, then get_involved_tasks
\* (which refreshes again), then the statistics by stored status.
get_main_message(tasks, reference) ==
    refresh_all_tasks_statuses(
        refresh_all_tasks_statuses(tasks, reference), reference)


\* TASKS.get(task_id) with a fallback to the tasks of the store when the
\* identifier is absent.
get_task_with_fallback(tasks, task_id) ==
    IF task_id \in DOMAIN tasks THEN {tasks[task_id]}
    ELSE {tasks[id] : id \in DOMAIN tasks}

\* get_task / TASKS.get(task_id): the Task object stored under task_id, or
\* None (the empty set).
get_task(tasks, task_id) ==
    {tasks[id] : id \in DOMAIN tasks \cap {task_id}}

\* The value delete_task returns.
delete_task_returns(tasks, task_id) == task_id \in DOMAIN tasks

ensure_task_for_action(tasks, task_id) == get_task(tasks, task_id)

Callbacks == {"take_task", "pause_task", "complete_task", "confirm_completion", "reset_task_confirm", "return_task", "complete_task_author", "remind_all", "postpone_reason", "delete_task"}

\* The callback handlers as they act on the store: the lookup of the task,
\* the answer "task not found" before any write, the permission check, and
\* the writes to the Task object found (which sits in the store under its
\* own task_id).
handle_callback(tasks, data, task_id, user_id, participant_id, new_due_date, reference) ==
    LET found == ensure_task_for_action(tasks, task_id)
    IN  IF found = {} THEN tasks
        ELSE
        LET task == CHOOSE t \in found : TRUE
            write(permitted, after) ==
                IF permitted THEN [tasks EXCEPT ![task.task_id] = after]
                ELSE tasks
        IN  CASE data = "take_task" ->
                    write(take_task_allowed(task, user_id),
                          handle_take_task(task, user_id, reference))
              [] data = "pause_task" ->
                    write(pause_task_allowed(task, user_id),
                          handle_pause_task(task, user_id, reference))
              [] data = "complete_task" ->
                    write(complete_task_allowed(task, user_id),
                          handle_complete_task(task, user_id, reference))
              [] data = "confirm_completion" ->
                    write(confirm_completion_allowed(task, user_id),
                          handle_confirm_completion(task, user_id,
                                                    participant_id, reference))
              [] data = "reset_task_confirm" ->
                    write(reset_task_allowed(task, user_id),
                          handle_reset_task_confirm(task, user_id, reference))
              [] data = "return_task" ->
                    write(return_task_allowed(task, user_id),
                          handle_return_task(task, user_id, reference))
              [] data = "complete_task_author" ->
                    write(author_completion_allowed(task, user_id),
                          handle_author_completion(task, user_id, reference))
              [] data = "remind_all" ->
                    write(remind_all_allowed(task, user_id),
                          handle_remind_all(task, user_id, reference))
              [] data = "postpone_reason" ->
                    write(TRUE,
                          process_postpone_reason(task, user_id, new_due_date,
                                                  reference))
              [] data = "delete_task" ->
                    IF delete_task_allowed(task, user_id)
                    THEN build_tasks_list_text(
                             get_tasks_for_view(
                                 delete_task(tasks, task.task_id), reference),
                             reference)
                    ELSE tasks

(* ------------------------ src/tbot/task_logic.py ----------------------- *)

\* recipients_on_take that keeps the responsible user when they act.
recipients_on_take_keeping_responsible(author_id, responsible_id, actor_id) ==
    (IF author_id # actor_id THEN {author_id} ELSE {})
        \cup (IF responsible_id # NoUser THEN {responsible_id} ELSE {})

recipients_on_take(author_id, responsible_id, actor_id) ==
    (IF author_id # actor_id THEN {author_id} ELSE {})
        \cup (IF responsible_id # NoUser /\ responsible_id # actor_id
              THEN {responsible_id} ELSE {})

\* recipients_on_confirmation that leaves the participant out when the
\* participant is the actor.
recipients_on_confirmation_without_actor(author_id, responsible_id, actor_id, participant_id) ==
    (IF participant_id # actor_id THEN {participant_id} ELSE {})
        \cup (IF author_id # actor_id THEN {author_id} ELSE {})
        \cup (IF responsible_id # NoUser /\ responsible_id # actor_id
              THEN {responsible_id} ELSE {})

recipients_on_confirmation(author_id, responsible_id, actor_id, participant_id) ==
    {participant_id}
        \cup (IF author_id # actor_id THEN {author_id} ELSE {})
        \cup (IF responsible_id # NoUser /\ responsible_id # actor_id
              THEN {responsible_id} ELSE {})

\* filter_activity_feed without the exception for the author's entries
\* that name more than one participant.
filter_activity_feed_without_exception(entries, viewer_id, author_id) ==
    IF viewer_id = author_id THEN entries
    ELSE SelectSeq(entries,
                   LAMBDA entry :
                       \/ entry.actor_id = viewer_id
                       \/ /\ entry.is_status_change
                          /\ viewer_id \in entry.related_participants)

\* The loop of filter_activity_feed over the entries that are left, with
\* the entries found visible so far.
RECURSIVE filter_activity_feed_loop(_, _, _, _)
filter_activity_feed_loop(entries, viewer_id, author_id, visible) ==
    IF entries = << >> THEN visible
    ELSE LET entry == Head(entries)
             continue(v) == filter_activity_feed_loop(
                                Tail(entries), viewer_id, author_id, v)
         IN  IF entry.actor_id = viewer_id THEN continue(Append(visible, entry))
             ELSE IF ~entry.is_status_change THEN continue(visible)
             ELSE IF viewer_id \notin entry.related_participants
             THEN continue(visible)
             ELSE IF /\ entry.actor_id = author_id
                     /\ Cardinality(entry.related_participants) > 1
             THEN continue(visible)
             ELSE continue(Append(visible, entry))

filter_activity_feed(entries, viewer_id, author_id) ==
    IF viewer_id = author_id THEN entries
    ELSE filter_activity_feed_loop(entries, viewer_id, author_id, << >>)

(* --------------------------- the state machine ------------------------- *)
(* TASKS            the store (tasks.py:60), task identifier -> Task        *)
(* task_id_counter  _task_id_counter (tasks.py:61)                          *)
(* now              the clock read by datetime.now()                        *)
(* issued           buttons sent to users that only exist in some task      *)
(*                  states and stay pressable afterwards: "complete" (to    *)
(*                  the executor) and "confirm" (holder, participant)       *)
(* last             the lifecycle action last recorded by                   *)
(*                  record_task_action, and whether the stored status was   *)
(*                  OVERDUE when its handler started (reads and reminders   *)
(*                  leave it as it is)                                      *)
(* assigned         history: the identifiers create_task has given out      *)
(* task_data        the creation sessions (bot.py:1019), user -> answers    *)
(* created          per task, what the creation dialogue fixed and no       *)
(*                  lifecycle handler reads: created_date, priority, and    *)
(*                  (history) the due date the author typed, if any; the    *)
(*                  lifecycle and store specifications leave it empty       *)
(* call             a call of a function of task_logic.py: its name, its    *)
(*                  arguments and, once it has returned, its result         *)
(* task_updates     the postponement sessions (bot.py task_updates): user   *)
(*                  -> the task being postponed                             *)
(* fsm              the dialogue state aiogram keeps per user (FSMContext)  *)
(* awaiting         the handlers suspended at an await of network I/O, each *)
(*                  with what it has left to do when it resumes             *)
(* A handler whose guards fail answers with an alert and returns before     *)
(* any write: such a press is a stuttering step.                            *)

NoButtons == [complete |-> {}, confirm |-> {}]
NoCall == [fn |-> "none", done |-> FALSE]

Init ==
    /\ TASKS = << >>
    /\ task_id_counter = 1
    /\ now = 0
    /\ issued = NoButtons
    /\ last = [op |-> "none", overdue |-> FALSE]
    /\ assigned = {}
    /\ task_data = << >>
    /\ created = << >>
    /\ call = NoCall
    /\ task_updates = << >>
    /\ fsm = << >>
    /\ awaiting = {}

Workgroups == {wg \in SUBSET Users : Cardinality(wg) <= MaxWorkgroup}

\* record_task_action: op names the recorded action.
record_task_action(task, op) ==
    [op |-> op, overdue |-> task.status = ST_OVERDUE]

\* One handler run on task id: the task after it and the buttons it sent.
Run(id, after, kb) ==
    /\ TASKS' = [TASKS EXCEPT ![id] = after]
    /\ issued' = [complete |-> issued.complete \cup kb.complete,
                  confirm  |-> issued.confirm \cup kb.confirm]
    /\ UNCHANGED <<task_id_counter, now, assigned, task_data, created, call, sessions>>

Tick ==
    /\ now < MaxTime
    /\ now' = now + 1
    /\ UNCHANGED <<TASKS, task_id_counter, issued, last, assigned, task_data, created, call, sessions>>

\* handle_privacy_selection -> create_task.  The new task's notification
\* carries task_actions_kb (take / postpone), which every state allows.
CreateTask ==
    /\ DOMAIN TASKS = {}
    /\ \E author_id \in Authors, responsible_user_id \in Users \cup {NoUser},
          workgroup \in Workgroups, due_date \in DueDates \cup {NoDate} :
        TASKS' = (task_id_counter :>
                    create_task(task_id_counter, author_id, due_date,
                                responsible_user_id, workgroup, now))
    /\ task_id_counter' = advance_task_id_counter(task_id_counter)
    /\ assigned' = assigned \cup {task_id_counter}
    /\ issued' = NoButtons
    /\ last' = [op |-> "create", overdue |-> FALSE]
    /\ UNCHANGED <<now, task_data, created, call, sessions>>

TakeTask ==
    \E id \in DOMAIN TASKS, user_id \in Users :
        LET after == handle_take_task(TASKS[id], user_id, now)
        IN  /\ take_task_allowed(TASKS[id], user_id)
            /\ Run(id, after, task_detail_kb(after, user_id))
            /\ last' = record_task_action(TASKS[id], "take")

PauseTask ==
    \E id \in DOMAIN TASKS, user_id \in Users :
        LET after == handle_pause_task(TASKS[id], user_id, now)
        IN  /\ pause_task_allowed(TASKS[id], user_id)
            /\ Run(id, after, task_detail_kb(after, user_id))
            /\ last' = record_task_action(TASKS[id], "pause")

\* The "complete" button is sent to the current executor only.
CompleteTask ==
    \E id \in DOMAIN TASKS, user_id \in issued.complete :
        LET task == TASKS[id]
            after == handle_complete_task(task, user_id, now)
            card == task_detail_kb(after, user_id)
            review == IF detect_user_role(task, user_id) = "workgroup"
                      THEN build_review_notification_keyboard(after, user_id)
                      ELSE {}
        IN  /\ complete_task_allowed(task, user_id)
            /\ Run(id, after, [card EXCEPT !.confirm = @ \cup review])
            /\ last' = record_task_action(task, "complete")

ResetTaskRequest ==
    \E id \in DOMAIN TASKS, user_id \in Users :
        /\ reset_task_allowed(TASKS[id], user_id)
        /\ Run(id, build_task_detail_text(TASKS[id], now), NoButtons)
        /\ UNCHANGED last

ResetTaskConfirm ==
    \E id \in DOMAIN TASKS, user_id \in Users :
        LET after == handle_reset_task_confirm(TASKS[id], user_id, now)
        IN  /\ reset_task_allowed(TASKS[id], user_id)
            /\ Run(id, after, task_detail_kb(after, user_id))
            /\ last' = record_task_action(TASKS[id], "reset")

AuthorCompletion ==
    \E id \in DOMAIN TASKS, user_id \in Users :
        LET after == handle_author_completion(TASKS[id], user_id, now)
        IN  /\ author_completion_allowed(TASKS[id], user_id)
            /\ Run(id, after, task_detail_kb(after, user_id))
            /\ last' = record_task_action(TASKS[id], "author_completion")

ReturnTask ==
    \E id \in DOMAIN TASKS, user_id \in Users :
        LET after == handle_return_task(TASKS[id], user_id, now)
        IN  /\ return_task_allowed(TASKS[id], user_id)
            /\ Run(id, after, task_detail_kb(after, user_id))
            /\ last' = record_task_action(TASKS[id], "return")

\* handle_postpone_task checks the permission and opens the session,
\* process_postpone_date stores the date, process_postpone_reason applies.
PostponeTask ==
    \E id \in DOMAIN TASKS, user_id \in Users, new_due_date \in DueDates :
        LET after == process_postpone_reason(TASKS[id], user_id,
                                             new_due_date, now)
        IN  /\ postpone_task_allowed(TASKS[id], user_id)
            /\ Run(id, after, task_detail_kb(after, user_id))
            /\ last' = record_task_action(TASKS[id], "postpone")

\* A confirm button is pressed by the user it was sent to.
ConfirmCompletion ==
    \E id \in DOMAIN TASKS, button \in issued.confirm :
        LET user_id == button[1]
            participant_id == button[2]
            after == handle_confirm_completion(TASKS[id], user_id,
                                               participant_id, now)
        IN  /\ confirm_completion_allowed(TASKS[id], user_id)
            /\ Run(id, after, task_detail_kb(after, user_id))
            /\ last' = record_task_action(TASKS[id], "confirm")

RemindAll ==
    \E id \in DOMAIN TASKS, user_id \in Users :
        LET after == handle_remind_all(TASKS[id], user_id, now)
        IN  /\ remind_all_allowed(TASKS[id], user_id)
            /\ Run(id, after, task_detail_kb(after, user_id))
            /\ UNCHANGED last

TaskDetail ==
    \E id \in DOMAIN TASKS, viewer_id \in Users :
        LET after == handle_task_detail(TASKS[id], viewer_id, now)
        IN  /\ Run(id, after, task_detail_kb(after, viewer_id))
            /\ UNCHANGED last

\* handle_tasks_page / handle_task_filters: get_tasks_for_view, then the
\* list text.
TasksList ==
    \E id \in DOMAIN TASKS :
        /\ Run(id, build_tasks_list_text(get_tasks_for_view(TASKS, now), now)[id],
               NoButtons)
        /\ UNCHANGED last

\* The main menu with its statistics.
MainMenu ==
    \E id \in DOMAIN TASKS :
        /\ Run(id, get_main_message(TASKS, now)[id], NoButtons)
        /\ UNCHANGED last

Next ==
    \/ Tick
    \/ CreateTask
    \/ TakeTask
    \/ PauseTask
    \/ CompleteTask
    \/ ResetTaskRequest
    \/ ResetTaskConfirm
    \/ AuthorCompletion
    \/ ReturnTask
    \/ PostponeTask
    \/ ConfirmCompletion
    \/ RemindAll
    \/ TaskDetail
    \/ TasksList
    \/ MainMenu

Spec == Init /\ [][Next]_vars


(* ----------------------------- properties ------------------------------ *)

all_completed(task) ==
    \A p \in non_author_participants(task) :
        get_participant_status(task, p) = ST_COMPLETED

\* C1: after any sequence of lifecycle actions, a task that is not OVERDUE
\* stores calculate_overall_status(task), and an OVERDUE task holds it in
\* status_before_overdue.
C1_StatusIsDerived ==
    \A id \in DOMAIN TASKS :
        LET task == TASKS[id]
        IN  IF task.status # ST_OVERDUE
            THEN task.status = calculate_overall_status(task)
            ELSE task.status_before_overdue = calculate_overall_status(task)

\* The half of C1 about tasks that are not OVERDUE.
C1_StoredStatusIsDerived ==
    \A id \in DOMAIN TASKS :
        TASKS[id].status # ST_OVERDUE
            => TASKS[id].status = calculate_overall_status(TASKS[id])

\* The precedence of the derivation rule, over the statuses of all
\* participants except the author.
DerivationRule(task) ==
    LET others == non_author_participants(task)
        has(s) == \E p \in others : task.participant_statuses[p] = s
    IN  IF task.pending_confirmations # {} THEN ST_IN_REVIEW
        ELSE IF others = {} THEN ST_NEW
        ELSE IF \A p \in others : task.participant_statuses[p] = ST_COMPLETED
        THEN ST_COMPLETED
        ELSE IF has(ST_ACTIVE) THEN ST_ACTIVE
        ELSE IF has(ST_PAUSED) THEN ST_PAUSED
        ELSE ST_NEW

\* C2: calculate_overall_status returns IN_REVIEW if a confirmation is
\* pending, else NEW without non-author participants, else COMPLETED if all
\* of them are COMPLETED, else ACTIVE if any is ACTIVE, else PAUSED if any
\* is PAUSED, else NEW.
C2_DerivationPrecedence ==
    \A id \in DOMAIN TASKS :
        calculate_overall_status(TASKS[id]) = DerivationRule(TASKS[id])

\* ACTIVE and PAUSED participants side by side, and the result is ACTIVE.
C2_Witness ==
    \E id \in DOMAIN TASKS :
        LET task == TASKS[id]
        IN  /\ \E p, q \in non_author_participants(task) :
                /\ task.participant_statuses[p] = ST_ACTIVE
                /\ task.participant_statuses[q] = ST_PAUSED
            /\ task.pending_confirmations = {}
            /\ calculate_overall_status(task) = ST_ACTIVE

\* C3 as stated: with at least one non-author participant,
\* calculate_overall_status is COMPLETED iff every non-author participant
\* is COMPLETED.
C3_CompletedIffAllCompleted ==
    \A id \in DOMAIN TASKS :
        non_author_participants(TASKS[id]) # {}
            => (calculate_overall_status(TASKS[id]) = ST_COMPLETED
                    <=> all_completed(TASKS[id]))

\* C3 amended: with at least one non-author participant,
\* calculate_overall_status is COMPLETED iff every non-author participant
\* is COMPLETED and no confirmation is pending (with one pending it is
\* IN_REVIEW).
C3_CompletedIffAllCompletedAndNonePending ==
    \A id \in DOMAIN TASKS :
        LET task == TASKS[id]
        IN  non_author_participants(task) # {}
            => /\ calculate_overall_status(task) = ST_COMPLETED
                    <=> (all_completed(task)
                            /\ task.pending_confirmations = {})
               /\ (all_completed(task) /\ task.pending_confirmations # {})
                    => calculate_overall_status(task) = ST_IN_REVIEW

\* Every non-author participant confirmed, nothing pending: COMPLETED.
C3_Witness ==
    \E id \in DOMAIN TASKS :
        /\ last.op = "confirm"
        /\ non_author_participants(TASKS[id]) # {}
        /\ all_completed(TASKS[id])
        /\ TASKS[id].pending_confirmations = {}
        /\ calculate_overall_status(TASKS[id]) = ST_COMPLETED

\* C4: on a task with at least one non-author participant the author's
\* entry of participant_statuses equals calculate_overall_status(task).
C4_AuthorStatusIsDerived ==
    \A id \in DOMAIN TASKS :
        LET task == TASKS[id]
        IN  non_author_participants(task) # {}
            => /\ task.author_id \in DOMAIN task.participant_statuses
               /\ task.participant_statuses[task.author_id]
                      = calculate_overall_status(task)

\* The author pressed pause (no other participant is PAUSED), yet the
\* author's entry is the derived status.
C4_Witness ==
    \E id \in DOMAIN TASKS :
        LET task == TASKS[id]
        IN  /\ last.op = "pause"
            /\ non_author_participants(task) # {}
            /\ \A p \in non_author_participants(task) :
                   task.participant_statuses[p] # ST_PAUSED
            /\ task.participant_statuses[task.author_id] = ST_ACTIVE

\* C5: awaiting_author_confirmation is true iff pending_confirmations is
\* non-empty.
C5_AwaitingIffPending ==
    \A id \in DOMAIN TASKS :
        TASKS[id].awaiting_author_confirmation
            <=> TASKS[id].pending_confirmations # {}

\* One of two pending participants was confirmed: the other is still
\* pending and the flag is still set.
C5_Witness ==
    \E id \in DOMAIN TASKS :
        /\ last.op = "confirm"
        /\ TASKS[id].pending_confirmations # {}
        /\ TASKS[id].awaiting_author_confirmation

\* C6: current_executor_id, if set, names a participant and is never the
\* author.
C6_ExecutorIsNonAuthorParticipant ==
    \A id \in DOMAIN TASKS :
        LET task == TASKS[id]
        IN  task.current_executor_id # NoUser
            => /\ task.current_executor_id \in get_task_participants(task)
               /\ task.current_executor_id # task.author_id

\* A task whose author is the responsible user and a workgroup member has
\* an executor.
C6_Witness ==
    \E id \in DOMAIN TASKS :
        /\ TASKS[id].current_executor_id # NoUser
        /\ TASKS[id].responsible_user_id = TASKS[id].author_id

\* The round trip of the task stored under id, seen from reference: the
\* refresh makes it OVERDUE, and after any permitted postponement to
\* reference or later the refresh restores the status computed from the
\* participants at that moment, which is the status computed before the
\* task went overdue when the author or the responsible postpones.
OverdueRoundTrip(id, reference) ==
    LET task == TASKS[id]
        overdue == refresh_task_status(task, reference)
    IN  /\ overdue.status = ST_OVERDUE
        /\ \A user_id \in Users, new_due_date \in DueDates :
             (/\ postpone_task_allowed(overdue, user_id)
              /\ new_due_date >= reference)
             => LET back == process_postpone_reason(
                                overdue, user_id, new_due_date, reference)
                IN  /\ back.status = calculate_overall_status(back)
                    /\ detect_user_role(task, user_id)
                           \in {"author", "responsible"}
                       => back.status = calculate_overall_status(task)

\* C7 as stated: a task of any computed status becomes OVERDUE at a
\* reference time after its due date, and a postponement to the future
\* followed by a refresh restores the status computed at that moment.
C7_OverdueRoundTripFromAnyStatus ==
    \A id \in DOMAIN TASKS, reference \in Times :
        (TASKS[id].due_date # NoDate /\ TASKS[id].due_date < reference)
            => OverdueRoundTrip(id, reference)

\* C7 amended: a task whose stored status is not COMPLETED becomes OVERDUE
\* at a reference time after its due date, and a postponement to the
\* future followed by a refresh restores the status computed from the
\* participants at that moment (the one from before the overlay if nothing
\* changed, never a stale or default NEW); a COMPLETED task stays as it is.
C7_OverdueRoundTrip ==
    \A id \in DOMAIN TASKS, reference \in Times :
        (TASKS[id].due_date # NoDate /\ TASKS[id].due_date < reference)
            => IF TASKS[id].status # ST_COMPLETED
               THEN OverdueRoundTrip(id, reference)
               ELSE refresh_task_status(TASKS[id], reference).status
                        = ST_COMPLETED

\* An OVERDUE task was postponed and is ACTIVE again.
C7_Witness ==
    \E id \in DOMAIN TASKS :
        /\ last = [op |-> "postpone", overdue |-> TRUE]
        /\ TASKS[id].status = ST_ACTIVE
        /\ TASKS[id].due_date >= now

Fresh(task, reference) ==
    task.status # ST_COMPLETED
        => (task.status = ST_OVERDUE
                <=> (task.due_date # NoDate /\ task.due_date < reference))

\* C8: the task list, the detail card, the main-menu statistics and the
\* reminder refresh the overlay before they render: the task they show, if
\* not COMPLETED, is OVERDUE iff its due date exists and is before now.
C8_ReadPathsRefresh ==
    \A id \in DOMAIN TASKS :
        /\ Fresh(build_task_detail_text(TASKS[id], now), now)
        /\ Fresh(build_tasks_list_text(get_tasks_for_view(TASKS, now),
                                       now)[id], now)
        /\ Fresh(get_main_message(TASKS, now)[id], now)
        /\ Fresh(send_task_reminder(TASKS[id], now), now)

\* The stored status is stale (the due date passed since the last
\* refresh) and the card shows OVERDUE.
C8_Witness ==
    \E id \in DOMAIN TASKS :
        /\ TASKS[id].status \notin {ST_OVERDUE, ST_COMPLETED}
        /\ TASKS[id].due_date # NoDate
        /\ TASKS[id].due_date < now
        /\ build_task_detail_text(TASKS[id], now).status = ST_OVERDUE

\* C9: refresh_task_status leaves a task whose stored status is COMPLETED
\* as it is, whatever the due date and the reference time.
C9_CompletedUntouched ==
    \A id \in DOMAIN TASKS, reference \in Times :
        TASKS[id].status = ST_COMPLETED
            => refresh_task_status(TASKS[id], reference) = TASKS[id]

\* A COMPLETED task whose due date has passed.
C9_Witness ==
    \E id \in DOMAIN TASKS :
        /\ TASKS[id].status = ST_COMPLETED
        /\ TASKS[id].due_date # NoDate
        /\ TASKS[id].due_date < now

\* C10: the author's force-complete makes every participant COMPLETED,
\* empties the pending set, clears the executor, sets the completion
\* timestamp and makes the aggregate status COMPLETED.
C10_ForceCompleteCompletes ==
    [][AuthorCompletion
        => \A id \in DOMAIN TASKS' :
            LET task == TASKS'[id]
            IN  /\ \A p \in get_task_participants(task) :
                       task.participant_statuses[p] = ST_COMPLETED
                /\ task.pending_confirmations = {}
                /\ task.current_executor_id = NoUser
                /\ task.completed_date # NoDate
                /\ task.status = ST_COMPLETED]_vars

(* ------------------------ the store specification --------------------- *)
(* Several tasks at a time, created and deleted; the store operations do   *)
(* not read a task's due date, so the tasks are created without one.       *)

StoreResponsibles == {1, 2}
StoreWorkgroups == {{}, {3}}

StoreCreateTask ==
    /\ task_id_counter <= MaxTaskId
    /\ \E author_id \in Authors, responsible_user_id \in StoreResponsibles,
          workgroup \in StoreWorkgroups :
        TASKS' = [id \in DOMAIN TASKS \cup {task_id_counter} |->
                    IF id = task_id_counter
                    THEN create_task(task_id_counter, author_id, NoDate,
                                     responsible_user_id, workgroup, now)
                    ELSE TASKS[id]]
    /\ task_id_counter' = advance_task_id_counter(task_id_counter)
    /\ assigned' = assigned \cup {task_id_counter}
    /\ last' = [op |-> "create", overdue |-> FALSE]
    /\ UNCHANGED <<now, issued, task_data, created, call, sessions>>

\* handle_delete_task: the task is removed and the list is shown again.
DeleteTask ==
    \E id \in DOMAIN TASKS, user_id \in Users :
        /\ delete_task_allowed(TASKS[id], user_id)
        /\ TASKS' = build_tasks_list_text(
                        get_tasks_for_view(delete_task(TASKS, id), now), now)
        /\ UNCHANGED <<task_id_counter, now, issued, last, assigned, task_data, created, call, sessions>>

StoreNext ==
    \/ StoreCreateTask
    \/ DeleteTask
    \/ TakeTask
    \/ ResetTaskConfirm
    \/ AuthorCompletion
    \/ ReturnTask

StoreSpec == Init /\ [][StoreNext]_vars

(* ----------------- the creation dialogue (bot.py) ---------------------- *)
(* The dialogue of one author, from the "add task" button to the task in   *)
(* the store.  Its steps that fix title, description, project, direction,  *)
(* responsible user and workgroup write only their own answer into the     *)
(* session and are folded into the last step.  The clock counts days here. *)

\* del mapping[user_id], mapping.pop(user_id, None), state.clear()
without(mapping, user_id) ==
    [key \in DOMAIN mapping \ {user_id} |-> mapping[key]]

TaskPriority == {"LOW", "MEDIUM", "HIGH", "CRITICAL"}
NoPriority == "UNSET"

priority_days(priority) ==
    CASE priority = "CRITICAL" -> 1
      [] priority = "HIGH" -> 3
      [] priority = "MEDIUM" -> 10
      [] priority = "LOW" -> 15
      [] OTHER -> 10

calculate_due_date(priority, created_date) ==
    created_date + priority_days(priority)

\* handle_add_task: a fresh session, stamped with the current time.
AddTask ==
    /\ \E user_id \in Authors :
        task_data' = [u \in DOMAIN task_data \cup {user_id} |->
            IF u = user_id
            THEN [created_date |-> now,
                  due_date |-> NoDate,
                  typed_due_date |-> NoDate,
                  priority |-> NoPriority,
                  created_tasks |-> {},
                  state |-> "waiting_for_due_date"]
            ELSE task_data[u]]
    /\ UNCHANGED <<TASKS, task_id_counter, now, issued, last, assigned, created, call, sessions>>

\* process_task_due_date: the author types a date, or "-" (NoDate) for none
\* (the "skip" button of handle_skip_due_date writes the same as "-").
ProcessTaskDueDate ==
    /\ \E user_id \in DOMAIN task_data, text \in DueDates \cup {NoDate} :
        /\ task_data[user_id].state = "waiting_for_due_date"
        /\ task_data' = [task_data EXCEPT ![user_id] =
                [@ EXCEPT !.due_date = text,
                          !.typed_due_date = text,
                          !.state = "waiting_for_priority"]]
    /\ UNCHANGED <<TASKS, task_id_counter, now, issued, last, assigned, created, call, sessions>>

\* handle_priority_selection: without a due date in the session, the due
\* date is calculated from the session's created_date.
PrioritySelection ==
    /\ \E user_id \in DOMAIN task_data, priority \in TaskPriority :
        /\ task_data[user_id].state = "waiting_for_priority"
        /\ task_data' = [task_data EXCEPT ![user_id] =
                [@ EXCEPT !.priority = priority,
                          !.due_date =
                              IF @ = NoDate
                              THEN calculate_due_date(
                                       priority, task_data[user_id].created_date)
                              ELSE @,
                          !.state = "waiting_for_privacy"]]
    /\ UNCHANGED <<TASKS, task_id_counter, now, issued, last, assigned, created, call, sessions>>

\* handle_privacy_selection up to its first await: the session must exist
\* (the filter startswith("privacy_") asks for no dialogue state); the
\* privacy flag is written into it and create_task is called with its
\* answers.  The task's created_date is the time of this call (tasks.py:93)
\* and is_private is the flag of the button (tasks.py:100).  The handler
\* then awaits the notifications and the edit of the author's message; the
\* session is still in task_data meanwhile.
PrivacySelection ==
    /\ task_id_counter <= MaxTaskId
    /\ \E user_id \in DOMAIN task_data,
          responsible_user_id \in {2},
          workgroup \in StoreWorkgroups,
          is_private \in BOOLEAN :
        LET task_info == task_data[user_id]
        IN  /\ task_info.state = "waiting_for_privacy"
            /\ TASKS' = (task_id_counter :>
                    ([is_private |-> is_private] @@
                     create_task(task_id_counter, user_id, task_info.due_date,
                                 responsible_user_id, workgroup, now)))
                    @@ TASKS
            /\ created' = (task_id_counter :>
                    [created_date |-> now,
                     priority |-> task_info.priority,
                     typed_due_date |-> task_info.typed_due_date])
                    @@ created
            /\ task_data' = [task_data EXCEPT ![user_id].created_tasks =
                                @ \cup {task_id_counter}]
            /\ awaiting' = awaiting \cup
                    {[handler |-> "handle_privacy_selection",
                      user_id |-> user_id, task_id |-> task_id_counter]}
    /\ task_id_counter' = advance_task_id_counter(task_id_counter)
    /\ assigned' = assigned \cup {task_id_counter}
    /\ issued' = NoButtons
    /\ last' = [op |-> "create", overdue |-> FALSE]
    /\ UNCHANGED <<now, call, task_updates, fsm>>

\* handle_privacy_selection after its awaits: "del task_data[user_id]".
\* When the session is gone by then, the del raises KeyError and the except
\* branch reports an error; the task stays in the store either way.
PrivacySelectionResumes ==
    /\ \E suspended \in awaiting :
        /\ suspended.handler = "handle_privacy_selection"
        /\ task_data' = without(task_data, suspended.user_id)
        /\ awaiting' = awaiting \ {suspended}
    /\ UNCHANGED <<TASKS, task_id_counter, now, issued, last, assigned, created, call, task_updates, fsm>>

CreationNext ==
    \/ Tick
    \/ AddTask
    \/ ProcessTaskDueDate
    \/ PrioritySelection
    \/ PrivacySelection
    \/ PrivacySelectionResumes

CreationSpec == Init /\ [][CreationNext]_vars

(* -------------- the functions of task_logic.py, called ----------------- *)
(* Each behaviour is one call: the initial state holds the arguments, the  *)
(* one step applies the function and stores what it returns.               *)

TakeCalls ==
    {[fn |-> "recipients_on_take", done |-> FALSE, author_id |-> a,
      responsible_id |-> r, actor_id |-> x, result |-> {}] :
        a \in Users, r \in Users \cup {NoUser}, x \in Users}

ConfirmationCalls ==
    {[fn |-> "recipients_on_confirmation", done |-> FALSE, author_id |-> a,
      responsible_id |-> r, actor_id |-> x, participant_id |-> p,
      result |-> {}] :
        a \in Users, r \in Users \cup {NoUser}, x \in Users, p \in Users}

\* ActivityEntry: actor_id, is_status_change, related_participants (the
\* description is not read by the filter).
ActivityEntry ==
    [actor_id : Users, is_status_change : BOOLEAN,
     related_participants : SUBSET Users]

FeedCalls ==
    {[fn |-> "filter_activity_feed", done |-> FALSE, entries |-> es,
      viewer_id |-> v, author_id |-> a, result |-> << >>] :
        es \in UNION {[1..n -> ActivityEntry] : n \in 0..MaxEntries},
        v \in Users, a \in Authors}

LogicCalls == TakeCalls \cup ConfirmationCalls \cup FeedCalls

LogicInit ==
    /\ TASKS = << >>
    /\ task_id_counter = 1
    /\ now = 0
    /\ issued = NoButtons
    /\ last = [op |-> "none", overdue |-> FALSE]
    /\ assigned = {}
    /\ task_data = << >>
    /\ created = << >>
    /\ call \in LogicCalls
    /\ task_updates = << >>
    /\ fsm = << >>
    /\ awaiting = {}

Returns(result) ==
    /\ ~call.done
    /\ call' = [call EXCEPT !.done = TRUE, !.result = result]
    /\ UNCHANGED <<TASKS, task_id_counter, now, issued, last, assigned, task_data, created, sessions>>

RecipientsOnTake ==
    /\ call.fn = "recipients_on_take"
    /\ Returns(recipients_on_take(call.author_id, call.responsible_id,
                                  call.actor_id))

RecipientsOnConfirmation ==
    /\ call.fn = "recipients_on_confirmation"
    /\ Returns(recipients_on_confirmation(call.author_id, call.responsible_id,
                                          call.actor_id, call.participant_id))

FilterActivityFeed ==
    /\ call.fn = "filter_activity_feed"
    /\ Returns(filter_activity_feed(call.entries, call.viewer_id,
                                    call.author_id))

LogicNext ==
    \/ RecipientsOnTake
    \/ RecipientsOnConfirmation
    \/ FilterActivityFeed

LogicSpec == LogicInit /\ [][LogicNext]_vars

(* ----------------------- properties, continued ------------------------ *)

\* C11: once the aggregate status is COMPLETED it stays COMPLETED under
\* every action except the author's return-to-work and reset.
C11_CompletedIsTerminal ==
    [][\A id \in DOMAIN TASKS :
        (/\ TASKS[id].status = ST_COMPLETED
         /\ ~(ReturnTask \/ ResetTaskConfirm))
        => /\ id \in DOMAIN TASKS'
           /\ TASKS'[id].status = ST_COMPLETED]_vars

due_date_passed(task, reference) ==
    task.due_date # NoDate /\ task.due_date < reference

\* C12 as stated: when a non-author participant completes their part they
\* become pending, the flag is set and the aggregate status is IN_REVIEW;
\* when the last pending participant is confirmed the pending set is empty,
\* the flag is cleared and the aggregate status is the recomputed one,
\* COMPLETED iff every non-author participant is COMPLETED.
C12_ReviewThenRecomputed ==
    \A id \in DOMAIN TASKS :
        LET task == TASKS[id]
        IN  /\ \A user_id \in issued.complete :
                complete_task_allowed(task, user_id)
                => LET after == handle_complete_task(task, user_id, now)
                   IN  /\ user_id \in after.pending_confirmations
                       /\ after.awaiting_author_confirmation
                       /\ after.status = ST_IN_REVIEW
            /\ \A button \in issued.confirm :
                (/\ confirm_completion_allowed(task, button[1])
                 /\ task.pending_confirmations = {button[2]})
                => LET after == handle_confirm_completion(
                                    task, button[1], button[2], now)
                   IN  /\ after.pending_confirmations = {}
                       /\ ~after.awaiting_author_confirmation
                       /\ after.status = calculate_overall_status(after)
                       /\ after.status = ST_COMPLETED <=> all_completed(after)

\* C12 amended: the pending set and the flag change as stated and the
\* status computed from the participants is IN_REVIEW after the completion
\* and COMPLETED iff every non-author participant is COMPLETED after the
\* last confirmation; the stored status equals the computed one when the
\* due date has not passed, and otherwise it is the computed one or
\* OVERDUE.
C12_ReviewThenRecomputedUnderOverlay ==
    \A id \in DOMAIN TASKS :
        LET task == TASKS[id]
            shown(after) ==
                /\ after.status \in {calculate_overall_status(after),
                                     ST_OVERDUE}
                /\ ~due_date_passed(task, now)
                    => after.status = calculate_overall_status(after)
        IN  /\ \A user_id \in issued.complete :
                complete_task_allowed(task, user_id)
                => LET after == handle_complete_task(task, user_id, now)
                   IN  /\ user_id \in after.pending_confirmations
                       /\ after.awaiting_author_confirmation
                       /\ calculate_overall_status(after) = ST_IN_REVIEW
                       /\ shown(after)
            /\ \A button \in issued.confirm :
                (/\ confirm_completion_allowed(task, button[1])
                 /\ task.pending_confirmations = {button[2]})
                => LET after == handle_confirm_completion(
                                    task, button[1], button[2], now)
                   IN  /\ after.pending_confirmations = {}
                       /\ ~after.awaiting_author_confirmation
                       /\ calculate_overall_status(after) = ST_COMPLETED
                              <=> all_completed(after)
                       /\ shown(after)

\* The last pending participant was confirmed while another participant
\* is still NEW: nothing is pending and the task is NEW.
C12_Witness ==
    \E id \in DOMAIN TASKS :
        LET task == TASKS[id]
        IN  /\ last.op = "confirm"
            /\ task.pending_confirmations = {}
            /\ ~task.awaiting_author_confirmation
            /\ \E p \in non_author_participants(task) :
                   task.participant_statuses[p] = ST_COMPLETED
            /\ \E p \in non_author_participants(task) :
                   task.participant_statuses[p] = ST_NEW
            /\ task.status = ST_NEW

\* The fields a rejected action leaves as they are.
task_unchanged(before, after) ==
    /\ after.participant_statuses = before.participant_statuses
    /\ after.pending_confirmations = before.pending_confirmations
    /\ after.awaiting_author_confirmation
           = before.awaiting_author_confirmation
    /\ after.current_executor_id = before.current_executor_id
    /\ after.completed_date = before.completed_date
    /\ after.status = before.status

\* C13: a confirm-completion press that names a participant who is not in
\* pending_confirmations leaves the task unchanged.
C13_ConfirmOfNonPendingRejected ==
    [][\A id \in DOMAIN TASKS, button \in issued.confirm :
        (/\ button[2] \notin TASKS[id].pending_confirmations
         /\ confirm_completion_allowed(TASKS[id], button[1])
         /\ last'.op = "confirm"
         /\ TASKS' = [TASKS EXCEPT ![id] =
                handle_confirm_completion(TASKS[id], button[1], button[2],
                                          now)])
        => task_unchanged(TASKS[id], TASKS'[id])]_vars

C15_AuthorOnlyOperations ==
    \A id \in DOMAIN TASKS, user_id \in Users :
        user_id # TASKS[id].author_id
            => /\ ~delete_task_allowed(TASKS[id], user_id)
               /\ ~author_completion_allowed(TASKS[id], user_id)
               /\ ~reset_task_allowed(TASKS[id], user_id)
               /\ ~return_task_allowed(TASKS[id], user_id)

\* A task has a responsible user and a current executor, neither of them
\* the author, all four operations are refused to both, and the author has
\* deleted an earlier task.
C15_Witness ==
    /\ assigned \ DOMAIN TASKS # {}
    /\ \E id \in DOMAIN TASKS :
        LET task == TASKS[id]
        IN  /\ task.responsible_user_id \notin {NoUser, task.author_id}
            /\ task.current_executor_id
                   \notin {NoUser, task.author_id, task.responsible_user_id}
            /\ \A user_id \in {task.responsible_user_id,
                               task.current_executor_id} :
                   /\ ~delete_task_allowed(task, user_id)
                   /\ ~author_completion_allowed(task, user_id)
                   /\ ~reset_task_allowed(task, user_id)
                   /\ ~return_task_allowed(task, user_id)
            /\ delete_task_allowed(task, task.author_id)

\* C16: a take is rejected before any write when the actor is the author,
\* is not involved in the task, when a confirmation is pending or when the
\* task is COMPLETED; otherwise it makes the actor the current executor
\* with personal status ACTIVE.
C16_TakeRejections ==
    \A id \in DOMAIN TASKS, user_id \in Users :
        LET task == TASKS[id]
            after == handle_take_task(task, user_id, now)
        IN  IF \/ user_id = task.author_id
               \/ ~is_user_involved(task, user_id)
               \/ task.pending_confirmations # {}
               \/ task.status = ST_COMPLETED
            THEN ~take_task_allowed(task, user_id)
            ELSE /\ take_task_allowed(task, user_id)
                 /\ after.current_executor_id = user_id
                 /\ after.participant_statuses[user_id] = ST_ACTIVE

\* A participant took a task whose author is also its responsible user
\* and is refused the take; the taker is the executor and ACTIVE.
C16_Witness ==
    \E id \in DOMAIN TASKS :
        LET task == TASKS[id]
        IN  /\ last.op = "take"
            /\ task.responsible_user_id = task.author_id
            /\ ~take_task_allowed(task, task.author_id)
            /\ task.current_executor_id # NoUser
            /\ task.participant_statuses[task.current_executor_id]
                   = ST_ACTIVE

\* What the author's return-to-work leaves behind, apart from the
\* aggregate status.
returned_to_work(after) ==
    /\ \A p \in get_task_participants(after) :
           after.participant_statuses[p] = ST_NEW
    /\ after.pending_confirmations = {}
    /\ ~after.awaiting_author_confirmation
    /\ after.current_executor_id = NoUser
    /\ after.completed_date = NoDate

\* C17 as stated: when the author returns a COMPLETED task to work every
\* participant is NEW, nothing is pending, executor and completion
\* timestamp are cleared and the aggregate status is NEW.
C17_ReturnToWork ==
    \A id \in DOMAIN TASKS :
        TASKS[id].status = ST_COMPLETED
            => LET after == handle_return_task(
                                TASKS[id], TASKS[id].author_id, now)
               IN  /\ returned_to_work(after)
                   /\ after.status = ST_NEW

\* C17 amended: the same, with the aggregate status NEW when the due date
\* has not passed and OVERDUE (NEW held beneath the overlay) when it has.
C17_ReturnToWorkUnderOverlay ==
    \A id \in DOMAIN TASKS :
        TASKS[id].status = ST_COMPLETED
            => LET after == handle_return_task(
                                TASKS[id], TASKS[id].author_id, now)
               IN  /\ return_task_allowed(TASKS[id], TASKS[id].author_id)
                   /\ returned_to_work(after)
                   /\ calculate_overall_status(after) = ST_NEW
                   /\ IF due_date_passed(TASKS[id], now)
                      THEN /\ after.status = ST_OVERDUE
                           /\ after.status_before_overdue = ST_NEW
                      ELSE after.status = ST_NEW

\* A COMPLETED task with its completion timestamp, which the author's
\* return-to-work makes NEW.
C17_Witness ==
    \E id \in DOMAIN TASKS :
        /\ TASKS[id].status = ST_COMPLETED
        /\ TASKS[id].completed_date # NoDate
        /\ non_author_participants(TASKS[id]) # {}
        /\ handle_return_task(TASKS[id], TASKS[id].author_id, now).status
               = ST_NEW

\* C18: the completion timestamp is set only while the task is fully
\* completed: every non-author participant is COMPLETED and the aggregate
\* status is COMPLETED.
C18_CompletedDateOnlyWhenCompleted ==
    \A id \in DOMAIN TASKS :
        TASKS[id].completed_date # NoDate
            => /\ all_completed(TASKS[id])
               /\ TASKS[id].status = ST_COMPLETED

\* C19: every member of pending_confirmations is a participant of the task
\* whose own status is COMPLETED.
C19_PendingMembersCompleted ==
    \A id \in DOMAIN TASKS :
        \A p \in TASKS[id].pending_confirmations :
            /\ p \in get_task_participants(TASKS[id])
            /\ get_participant_status(TASKS[id], p) = ST_COMPLETED

\* C20: under any sequence of creations and deletions every created task
\* receives an identifier greater than every identifier given out before,
\* so a deleted task's identifier is never given out again and no two
\* tasks share an identifier.
C20_IdentifiersNeverReused ==
    [][/\ \A id \in DOMAIN TASKS' :
            /\ TASKS'[id].task_id = id
            /\ id \in assigned'
       /\ StoreCreateTask
            => \E id \in DOMAIN TASKS' :
                /\ \A earlier \in assigned : id > earlier
                /\ id \notin DOMAIN TASKS
                /\ DOMAIN TASKS' = DOMAIN TASKS \cup {id}
                /\ assigned' = assigned \cup {id}
                /\ \A other \in DOMAIN TASKS : TASKS'[other] = TASKS[other]
       /\ DeleteTask
            => /\ assigned' = assigned
               /\ task_id_counter' = task_id_counter]_vars

\* Task 1 was deleted and the task created after it has identifier 2.
C20_Witness ==
    /\ assigned = {1, 2}
    /\ DOMAIN TASKS = {2}
    /\ TASKS[2].task_id = 2

\* C21: immediately after create the participant-status mapping has an
\* entry NEW for exactly the author, the responsible user (when set) and
\* every workgroup member, nothing is pending, and the aggregate status is
\* NEW unless the due date given is already in the past, in which case it
\* is OVERDUE with status_before_overdue = NEW.
C21_CreatedTaskIsNew ==
    [][CreateTask =>
        \E id \in DOMAIN TASKS' :
            LET task == TASKS'[id]
                participants ==
                    {task.author_id}
                        \cup (IF task.responsible_user_id # NoUser
                              THEN {task.responsible_user_id} ELSE {})
                        \cup task.workgroup
            IN  /\ id \notin DOMAIN TASKS
                /\ DOMAIN task.participant_statuses = participants
                /\ \A p \in participants :
                       task.participant_statuses[p] = ST_NEW
                /\ task.pending_confirmations = {}
                /\ IF task.due_date # NoDate /\ task.due_date < now
                   THEN /\ task.status = ST_OVERDUE
                        /\ task.status_before_overdue = ST_NEW
                   ELSE task.status = ST_NEW]_vars

\* A task with a responsible user and a workgroup member was created with
\* a due date already in the past and is OVERDUE over NEW.
C21_Witness ==
    \E id \in DOMAIN TASKS :
        LET task == TASKS[id]
        IN  /\ last.op = "create"
            /\ issued = NoButtons
            /\ task.responsible_user_id \notin {NoUser, task.author_id}
            /\ task.workgroup
                   \ {task.author_id, task.responsible_user_id} # {}
            /\ task.due_date # NoDate
            /\ task.due_date < now
            /\ task.status = ST_OVERDUE
            /\ task.status_before_overdue = ST_NEW
            /\ \A p \in get_task_participants(task) :
                   task.participant_statuses[p] = ST_NEW

\* C22: a task created without an explicit due date has the due date
\* created_date + offset(priority), with the offsets CRITICAL 1, HIGH 3,
\* MEDIUM 10 and LOW 15 days; a due date the author supplied is kept.
C22_DueDateFromPriority ==
    \A id \in DOMAIN TASKS :
        LET offset == [p \in TaskPriority |->
                          IF p = "CRITICAL" THEN 1
                          ELSE IF p = "HIGH" THEN 3
                          ELSE IF p = "MEDIUM" THEN 10
                          ELSE 15]
        IN  IF created[id].typed_due_date = NoDate
            THEN TASKS[id].due_date
                     = created[id].created_date + offset[created[id].priority]
            ELSE TASKS[id].due_date = created[id].typed_due_date

\* Identifiers a button or a session may carry: 0 (what a callback that
\* cannot be parsed defaults to), identifiers given out, and identifiers
\* not given out yet.
TaskIds == 0..(MaxTaskId + 1)

\* C23: an operation that names a task identifier absent from the store
\* (never created or already deleted) leaves the store and every task in
\* it unchanged: delete returns false, get finds nothing, and take, pause,
\* complete, confirm, reset, return, force-complete, remind and a postpone
\* session apply no write.
C23_AbsentTaskNoMutation ==
    \A task_id \in TaskIds \ DOMAIN TASKS :
        /\ ~delete_task_returns(TASKS, task_id)
        /\ delete_task(TASKS, task_id) = TASKS
        /\ get_task(TASKS, task_id) = {}
        /\ \A data \in Callbacks, user_id \in Users, participant_id \in Users,
              new_due_date \in DueDates :
               handle_callback(TASKS, data, task_id, user_id, participant_id,
                               new_due_date, now) = TASKS

\* Task 1 was deleted and task 2 is in the store; a take of task 2 by its
\* responsible user would write, the same press for task 1 writes nothing.
C23_Witness ==
    /\ 1 \in assigned \ DOMAIN TASKS
    /\ 2 \in DOMAIN TASKS
    /\ LET user_id == TASKS[2].responsible_user_id
       IN  /\ take_task_allowed(TASKS[2], user_id)
           /\ handle_callback(TASKS, "take_task", 2, user_id, user_id, 0, now)
                  # TASKS
           /\ handle_callback(TASKS, "take_task", 1, user_id, user_id, 0, now)
                  = TASKS

\* C24: recalc_task_status is idempotent: a second call right after the
\* first leaves the aggregate status, status_before_overdue and the
\* author's status as the first call left them, for every task state,
\* OVERDUE included.
C24_RecalcIdempotent ==
    \A id \in DOMAIN TASKS :
        LET once == recalc_task_status(TASKS[id])
            twice == recalc_task_status(once)
        IN  /\ twice.status = once.status
            /\ twice.status_before_overdue = once.status_before_overdue
            /\ get_participant_status(twice, twice.author_id)
                   = get_participant_status(once, once.author_id)
            /\ twice = once

\* An OVERDUE task that the first call changes (its snapshot is missing)
\* and the second call leaves alone.
C24_Witness ==
    \E id \in DOMAIN TASKS :
        LET once == recalc_task_status(TASKS[id])
        IN  /\ TASKS[id].status = ST_OVERDUE
            /\ non_author_participants(TASKS[id]) # {}
            /\ once # TASKS[id]
            /\ once.status = ST_OVERDUE
            /\ recalc_task_status(once) = once

\* C25: set_participant_status for one non-author participant, followed by
\* recalc_task_status, changes only that participant's entry and the
\* author's synchronized entry; the entry of every other participant is
\* unchanged.
C25_SetStatusFrame ==
    \A id \in DOMAIN TASKS :
        LET task == TASKS[id]
        IN  \A user_id \in non_author_participants(task),
               status \in TaskStatus \ {ST_OVERDUE} :
                LET after == recalc_task_status(
                                 set_participant_status(task, user_id, status))
                IN  /\ DOMAIN after.participant_statuses
                           = DOMAIN task.participant_statuses
                    /\ after.participant_statuses[user_id] = status
                    /\ \A other \in get_task_participants(task)
                                        \ {user_id, task.author_id} :
                           after.participant_statuses[other]
                               = task.participant_statuses[other]

\* The responsible user is ACTIVE and a workgroup member is NEW; pausing
\* the responsible user makes the author PAUSED and leaves the member NEW.
C25_Witness ==
    \E id \in DOMAIN TASKS :
        LET task == TASKS[id]
            user_id == task.responsible_user_id
        IN  /\ user_id \notin {NoUser, task.author_id}
            /\ task.pending_confirmations = {}
            /\ task.participant_statuses[user_id] = ST_ACTIVE
            /\ task.participant_statuses[task.author_id] = ST_ACTIVE
            /\ \E other \in task.workgroup \ {user_id, task.author_id} :
                LET after == recalc_task_status(
                                 set_participant_status(task, user_id,
                                                        ST_PAUSED))
                IN  /\ task.participant_statuses[other] = ST_NEW
                    /\ after.participant_statuses[other] = ST_NEW
                    /\ after.participant_statuses[user_id] = ST_PAUSED
                    /\ after.participant_statuses[task.author_id] = ST_PAUSED

\* Nothing is pending, some non-author participants are NEW, others are
\* PAUSED and none is ACTIVE.
new_and_paused_mixed(task) ==
    LET has(s) == \E p \in non_author_participants(task) :
                      get_participant_status(task, p) = s
    IN  /\ task.pending_confirmations = {}
        /\ has(ST_NEW)
        /\ has(ST_PAUSED)
        /\ ~has(ST_ACTIVE)

\* C26 as stated: with nothing pending, some non-author participants NEW,
\* others PAUSED and none ACTIVE, calculate_overall_status is NEW.
C26_MixedNewPausedIsNew ==
    \A id \in DOMAIN TASKS :
        new_and_paused_mixed(TASKS[id])
            => calculate_overall_status(TASKS[id]) = ST_NEW

\* C26 amended: with nothing pending, some non-author participants NEW,
\* others PAUSED and none ACTIVE, calculate_overall_status is PAUSED.
C26_MixedNewPausedIsPaused ==
    \A id \in DOMAIN TASKS :
        new_and_paused_mixed(TASKS[id])
            => calculate_overall_status(TASKS[id]) = ST_PAUSED

\* The responsible user is NEW, a workgroup member paused, and the task is
\* PAUSED.
C26_Witness ==
    \E id \in DOMAIN TASKS :
        LET task == TASKS[id]
        IN  /\ last.op = "pause"
            /\ new_and_paused_mixed(task)
            /\ task.responsible_user_id \notin {NoUser, task.author_id}
            /\ task.participant_statuses[task.responsible_user_id] = ST_NEW
            /\ calculate_overall_status(task) = ST_PAUSED
            /\ task.status = ST_PAUSED

\* The author and the responsible user, when one is set.
author_and_responsible(author_id, responsible_id) ==
    {author_id} \cup (IF responsible_id # NoUser THEN {responsible_id} ELSE {})

\* C27: for every author_id, responsible_id (possibly unset) and actor_id,
\* the three equal included, recipients_on_take returns exactly
\* {author_id, responsible_id if set} minus {actor_id}.
C27_RecipientsOnTake ==
    (call.fn = "recipients_on_take" /\ call.done)
        => call.result
               = author_and_responsible(call.author_id, call.responsible_id)
                     \ {call.actor_id}

\* The author is the responsible user and the actor: nobody is notified.
C27_Witness ==
    /\ call.fn = "recipients_on_take"
    /\ call.done
    /\ call.author_id = call.responsible_id
    /\ call.author_id = call.actor_id
    /\ call.result = {}

\* C28 as stated: recipients_on_confirmation returns exactly
\* {participant_id, author_id, responsible_id if set} minus {actor_id}.
C28_RecipientsOnConfirmation ==
    (call.fn = "recipients_on_confirmation" /\ call.done)
        => call.result
               = ({call.participant_id}
                    \cup author_and_responsible(call.author_id,
                                                call.responsible_id))
                     \ {call.actor_id}

\* C28 amended: recipients_on_confirmation returns the confirmed
\* participant, always, plus the author and the responsible user (if set)
\* unless they are the actor: {participant_id} united with
\* {author_id, responsible_id if set} minus {actor_id}.
C28_RecipientsOnConfirmationKeepParticipant ==
    (call.fn = "recipients_on_confirmation" /\ call.done)
        => call.result
               = {call.participant_id}
                    \cup (author_and_responsible(call.author_id,
                                                 call.responsible_id)
                              \ {call.actor_id})

\* The responsible user confirms their own completion and is notified,
\* with the author.
C28_Witness ==
    /\ call.fn = "recipients_on_confirmation"
    /\ call.done
    /\ call.actor_id = call.participant_id
    /\ call.actor_id = call.responsible_id
    /\ call.author_id # call.actor_id
    /\ call.result = {call.author_id, call.actor_id}

\* The entries a viewer is to see: every entry for the author; for anyone
\* else their own entries, and the status changes that name them, except
\* the author's status changes that name more than one participant.
shown_to(entry, viewer_id, author_id) ==
    \/ viewer_id = author_id
    \/ entry.actor_id = viewer_id
    \/ /\ entry.is_status_change
       /\ viewer_id \in entry.related_participants
       /\ ~(/\ entry.actor_id = author_id
            /\ Cardinality(entry.related_participants) > 1)

\* C29: filter_activity_feed returns, in their original order, exactly the
\* entries shown_to the viewer.  In particular, for viewers other than the
\* author, the author's status change naming two participants is shown to
\* neither of them, the author's status change naming one participant is
\* shown to that participant only, and another user's entry that is not a
\* status change is not shown.
C29_FilterActivityFeed ==
    (call.fn = "filter_activity_feed" /\ call.done)
        => LET entries == call.entries
               result == call.result
               viewer_id == call.viewer_id
               author_id == call.author_id
               shown(i) == shown_to(entries[i], viewer_id, author_id)
               kept == {i \in 1..Len(entries) : shown(i)}
               \* the position in entries of the k-th entry kept
               nth(k) == CHOOSE i \in kept :
                             Cardinality({j \in kept : j <= i}) = k
               hidden(entry) ==
                   \A k \in 1..Len(result) : result[k] # entry
           IN  /\ Len(result) = Cardinality(kept)
               /\ \A k \in 1..Len(result) : result[k] = entries[nth(k)]
               /\ viewer_id # author_id
                    => \A i \in 1..Len(entries) :
                        LET entry == entries[i]
                            named == entry.related_participants
                        IN  /\ (/\ entry.actor_id = author_id
                                /\ entry.is_status_change
                                /\ Cardinality(named) = 2
                                /\ viewer_id \in named)
                               => hidden(entry)
                            /\ (/\ entry.actor_id = author_id
                                /\ entry.is_status_change
                                /\ Cardinality(named) = 1)
                               => (hidden(entry) <=> viewer_id \notin named)
                            /\ (/\ entry.actor_id # viewer_id
                                /\ ~entry.is_status_change)
                               => hidden(entry)

\* A viewer other than the author is named with someone else in a status
\* change by the author, which is hidden, and in a later status change by
\* a third user, which is shown.
C29_Witness ==
    /\ call.fn = "filter_activity_feed"
    /\ call.done
    /\ call.viewer_id # call.author_id
    /\ Len(call.entries) = 2
    /\ call.entries[1].actor_id = call.author_id
    /\ call.entries[1].is_status_change
    /\ call.viewer_id \in call.entries[1].related_participants
    /\ Cardinality(call.entries[1].related_participants) = 2
    /\ call.entries[2].actor_id \notin {call.author_id, call.viewer_id}
    /\ call.entries[2].is_status_change
    /\ call.viewer_id \in call.entries[2].related_participants
    /\ Cardinality(call.entries[2].related_participants) = 2
    /\ call.result = <<call.entries[2]>>

\* C30: a lifecycle notification triggered by a workgroup member is
\* delivered to the author and the responsible user, and neither to the
\* acting member nor to any other workgroup member.
C30_WorkgroupNotification ==
    \A id \in DOMAIN TASKS :
        LET task == TASKS[id]
            managers == {task.author_id, task.responsible_user_id}
        IN  \A actor_id \in task.workgroup \ managers :
                LET recipients == notify_task_participants(task, actor_id)
                IN  /\ task.author_id \in recipients
                    /\ task.responsible_user_id # NoUser
                           => task.responsible_user_id \in recipients
                    /\ actor_id \notin recipients
                    /\ \A member_id \in task.workgroup \ managers :
                           member_id \notin recipients

(***************************************************************************)
(* Notification and reminder fan-out (bot.py notify_task_participants,     *)
(* send_task_reminder).  A handler that has committed its writes sends one *)
(* message per recipient, awaiting each send; a send either succeeds or    *)
(* raises.  FanOutSpec follows one handler at a time through its sends:    *)
(* the taking of a task (a notification to every participant) and "remind  *)
(* all" (a reminder to the allowed targets).  The record of the suspended  *)
(* handler keeps the task as it was committed, the recipients still to be  *)
(* served (the rest of the for loop) and the log of the attempts made.     *)
(***************************************************************************)

\* The loop body where an exception of the send leaves the loop.
send_to_recipient_aborting(fanout, recipient_id, ok) ==
    [fanout EXCEPT !.todo = IF ok THEN @ \ {recipient_id} ELSE {},
                   !.log = Append(@, [recipient_id |-> recipient_id, ok |-> ok])]

\* One iteration of the for loop: the send is attempted once; an exception
\* is caught and logged inside the iteration, and the loop goes on to the
\* next recipient (the same shape in send_task_reminder, bot.py 661-675).
send_to_recipient(fanout, recipient_id, ok) ==
    [fanout EXCEPT !.todo = @ \ {recipient_id},
                   !.log = Append(@, [recipient_id |-> recipient_id, ok |-> ok])]

\* The recipients of a reminder: the targets that are registered users.
reminder_recipients(task, actor_id) ==
    {recipient_id \in get_allowed_reminder_targets(task, actor_id) :
        recipient_id \in USERS}

fan_out(handler, task_id, user_id, task, recipients) ==
    [handler |-> handler, task_id |-> task_id, user_id |-> user_id,
     committed |-> task, recipients |-> recipients, todo |-> recipients,
     log |-> << >>]

\* handle_take_task up to its first await: the writes are in the store and
\* the notification loop begins.
TakeTaskNotify ==
    /\ awaiting = {}
    /\ \E id \in DOMAIN TASKS, user_id \in Users :
        LET after == take_task_writes(TASKS[id], user_id)
        IN  /\ take_task_allowed(TASKS[id], user_id)
            /\ TASKS' = [TASKS EXCEPT ![id] = after]
            /\ last' = record_task_action(after, "take")
            /\ awaiting' = {fan_out("take_task", id, user_id, after,
                                    notify_task_participants(after, user_id))}
    /\ UNCHANGED <<task_id_counter, now, issued, assigned, task_data, created, call, task_updates, fsm>>

\* handle_remind_all up to its first await: send_task_reminder refreshes
\* the task and the reminder loop begins.
RemindAllSend ==
    /\ awaiting = {}
    /\ \E id \in DOMAIN TASKS, user_id \in Users :
        LET after == send_task_reminder(TASKS[id], now)
        IN  /\ remind_all_allowed(TASKS[id], user_id)
            /\ TASKS' = [TASKS EXCEPT ![id] = after]
            /\ awaiting' = {fan_out("remind_all", id, user_id, after,
                                    reminder_recipients(after, user_id))}
    /\ UNCHANGED <<task_id_counter, now, issued, last, assigned, task_data, created, call, task_updates, fsm>>

\* One send of the loop returns or raises.  A Python set is iterated in no
\* particular order, so any recipient still to be served may be next.
Send ==
    /\ \E fanout \in awaiting, recipient_id \in Users, ok \in BOOLEAN :
        /\ recipient_id \in fanout.todo
        /\ awaiting' = {send_to_recipient(fanout, recipient_id, ok)}
    /\ UNCHANGED <<TASKS, task_id_counter, now, issued, last, assigned, task_data, created, call, task_updates, fsm>>

\* The loop is over: handle_remind_all records its action, and both
\* handlers render the detail card.
FanOutReturns ==
    /\ \E fanout \in awaiting :
        LET id == fanout.task_id
            after == render_task_detail(TASKS[id], now)
        IN  /\ fanout.todo = {}
            /\ TASKS' = [TASKS EXCEPT ![id] = after]
            /\ issued' = [complete |-> issued.complete \cup task_detail_kb(after, fanout.user_id).complete,
                          confirm  |-> issued.confirm \cup task_detail_kb(after, fanout.user_id).confirm]
            /\ last' = IF fanout.handler = "remind_all"
                       THEN record_task_action(TASKS[id], "remind") ELSE last
    /\ awaiting' = {}
    /\ UNCHANGED <<task_id_counter, now, assigned, task_data, created, call, task_updates, fsm>>

FanOutNext ==
    \/ Tick
    \/ CreateTask
    \/ TakeTaskNotify
    \/ RemindAllSend
    \/ Send
    \/ FanOutReturns

FanOutSpec == Init /\ [][FanOutNext]_vars

(***************************************************************************)
(* Properties of the fan-out                                               *)
(***************************************************************************)

\* The number of send attempts the log holds for a recipient.
attempts(fanout, recipient_id) ==
    Cardinality({i \in DOMAIN fanout.log : fanout.log[i].recipient_id = recipient_id})

\* C31: in a notification or reminder fan-out every recipient already
\* passed by the loop has exactly one send attempt, failed or not, the
\* recipients still to be served have none and are exactly those not yet
\* attempted (a failure neither retries nor drops anybody), and the task in
\* the store is the one committed before the first send.
C31_FanOutSurvivesFailure ==
    \A fanout \in awaiting :
        /\ TASKS[fanout.task_id] = fanout.committed
        /\ \A recipient_id \in fanout.recipients :
            attempts(fanout, recipient_id) =
                IF recipient_id \in fanout.todo THEN 0 ELSE 1
        /\ fanout.todo =
            fanout.recipients \ {fanout.log[i].recipient_id : i \in DOMAIN fanout.log}

\* A fan-out whose first send failed and which went on to serve every other
\* recipient.
C31_Witness ==
    \E fanout \in awaiting :
        /\ Cardinality(fanout.recipients) >= 2
        /\ fanout.todo = {}
        /\ ~fanout.log[1].ok
        /\ fanout.log[2].ok
        /\ TASKS[fanout.task_id].current_executor_id = fanout.user_id

(***************************************************************************)
(* Properties of the displayed status                                      *)
(***************************************************************************)

\* C32: the status printed for a participant viewer in the detail card, in
\* the task list and in a reminder is that viewer's own participant status
\* (outside the overdue overlay, which has no personal counterpart, and for
\* a task that has participants besides its author).
C32_ViewerSeesOwnStatus ==
    \A id \in DOMAIN TASKS :
        \A viewer_id \in get_task_participants(TASKS[id]) :
            LET card == build_task_detail_text(TASKS[id], now)
                line == build_tasks_list_text(TASKS, now)[id]
                reminder == send_task_reminder(TASKS[id], now)
            IN  (card.status # ST_OVERDUE /\ non_author_participants(TASKS[id]) # {}) =>
                    /\ card.status = get_personal_status_for_user(card, viewer_id)
                    /\ line.status = get_personal_status_for_user(line, viewer_id)
                    /\ reminder.status = get_personal_status_for_user(reminder, viewer_id)

(***************************************************************************)
(* Properties of the current executor                                      *)
(***************************************************************************)

\* C33: at most one participant holds the task: no non-author participant
\* other than current_executor_id has the personal status ACTIVE.
C33_SingleHolder ==
    \A id \in DOMAIN TASKS :
        \A participant_id \in non_author_participants(TASKS[id]) :
            get_participant_status(TASKS[id], participant_id) = ST_ACTIVE
                => TASKS[id].current_executor_id = participant_id

\* C35: when current_executor_id is set, that participant's personal status
\* is ACTIVE.
C35_ExecutorIsActive ==
    \A id \in DOMAIN TASKS :
        TASKS[id].current_executor_id # NoUser =>
            get_participant_status(TASKS[id], TASKS[id].current_executor_id) = ST_ACTIVE

\* The executor has paused: the executor field is cleared and the former
\* executor, who had been sent the "complete" button, is PAUSED.
C35_Witness ==
    \E id \in DOMAIN TASKS :
        /\ last.op = "pause"
        /\ TASKS[id].current_executor_id = NoUser
        /\ \E participant_id \in issued.complete :
            get_participant_status(TASKS[id], participant_id) = ST_PAUSED

(***************************************************************************)
(* Concurrent handlers.  aiogram runs the handler of every update as a     *)
(* task of one event loop, so control passes from one handler to another   *)
(* only where a handler awaits network I/O.  Each lifecycle handler of     *)
(* bot.py has the same shape: the lookup, the permission checks (an        *)
(* "await callback.answer(...); return" on rejection) and all the writes   *)
(* up to recalc_task_status and record_task_action in one run without an   *)
(* await of I/O, then "await notify_task_participants(...)", then the      *)
(* rendering of the card, which refreshes the overlay.  HandlersSpec       *)
(* interleaves the handlers at those awaits: HandlerWrites is a handler up *)
(* to its first await, HandlerResumes the rest of it.                      *)
(***************************************************************************)

MaxInFlight == 2

LifecycleHandlers ==
    {"take_task", "pause_task", "complete_task", "confirm_completion",
     "reset_task_confirm", "return_task", "complete_task_author",
     "process_postpone_reason"}

\* The permission checks of a lifecycle handler.
lifecycle_allowed(handler, task, user_id) ==
    CASE handler = "take_task" -> take_task_allowed(task, user_id)
      [] handler = "pause_task" -> pause_task_allowed(task, user_id)
      [] handler = "complete_task" -> complete_task_allowed(task, user_id)
      [] handler = "confirm_completion" -> confirm_completion_allowed(task, user_id)
      [] handler = "reset_task_confirm" -> reset_task_allowed(task, user_id)
      [] handler = "return_task" -> return_task_allowed(task, user_id)
      [] handler = "complete_task_author" -> author_completion_allowed(task, user_id)
      [] handler = "process_postpone_reason" -> postpone_task_allowed(task, user_id)

\* The writes of a lifecycle handler up to its first await.
lifecycle_writes(handler, task, user_id, participant_id, new_due_date, reference) ==
    CASE handler = "take_task" -> take_task_writes(task, user_id)
      [] handler = "pause_task" -> pause_task_writes(task, user_id)
      [] handler = "complete_task" -> complete_task_writes(task, user_id)
      [] handler = "confirm_completion" ->
            confirm_completion_writes(task, user_id, participant_id, reference)
      [] handler = "reset_task_confirm" -> reset_task_writes(task, user_id)
      [] handler = "return_task" -> return_task_writes(task, user_id)
      [] handler = "complete_task_author" ->
            author_completion_writes(task, user_id, reference)
      [] handler = "process_postpone_reason" ->
            postpone_reason_writes(task, user_id, new_due_date)

\* A handler that awaits the notification first and writes when it resumes.
after_first_await_writing(suspended, task, reference) ==
    render_task_detail(
        lifecycle_writes(suspended.handler, task, suspended.user_id,
                         suspended.participant_id, suspended.new_due_date,
                         reference),
        reference)

\* What a lifecycle handler does to the task once its notifications are
\* sent: it renders the detail card, which refreshes the overlay.
after_first_await(suspended, task, reference) ==
    render_task_detail(task, reference)

\* The buttons a handler sends: the card of the presser and, when a
\* workgroup member completes, the review notification.
handler_buttons(suspended, task) ==
    LET card == task_detail_kb(task, suspended.user_id)
        review == IF /\ suspended.handler = "complete_task"
                     /\ detect_user_role(task, suspended.user_id) = "workgroup"
                  THEN build_review_notification_keyboard(task, suspended.user_id)
                  ELSE {}
    IN  [card EXCEPT !.confirm = @ \cup review]

\* A button press (or, for the postponement, the message with the reason)
\* runs its handler up to the first await.  The "complete" and "confirm"
\* buttons are pressed by the users they were sent to.
HandlerWrites ==
    /\ Cardinality(awaiting) < MaxInFlight
    /\ \E id \in DOMAIN TASKS, handler \in LifecycleHandlers, user_id \in Users :
       \E participant_id \in (IF handler = "confirm_completion" THEN Users ELSE {NoUser}),
          new_due_date \in (IF handler = "process_postpone_reason" THEN DueDates ELSE {NoDate}) :
        LET suspended == [handler |-> handler, task_id |-> id, user_id |-> user_id,
                          participant_id |-> participant_id,
                          new_due_date |-> new_due_date]
        IN  /\ lifecycle_allowed(handler, TASKS[id], user_id)
            /\ handler = "complete_task" => user_id \in issued.complete
            /\ handler = "confirm_completion" => <<user_id, participant_id>> \in issued.confirm
            /\ suspended \notin awaiting
            /\ TASKS' = [TASKS EXCEPT ![id] =
                            lifecycle_writes(handler, TASKS[id], user_id,
                                             participant_id, new_due_date, now)]
            /\ last' = record_task_action(TASKS[id], handler)
            /\ awaiting' = awaiting \cup {suspended}
    /\ UNCHANGED <<task_id_counter, now, issued, assigned, task_data, created, call, task_updates, fsm>>

\* The notifications of a suspended handler are sent and it runs to its
\* end.
HandlerResumes ==
    /\ \E suspended \in awaiting :
        LET id == suspended.task_id
            after == after_first_await(suspended, TASKS[id], now)
            kb == handler_buttons(suspended, after)
        IN  /\ TASKS' = [TASKS EXCEPT ![id] = after]
            /\ issued' = [complete |-> issued.complete \cup kb.complete,
                          confirm  |-> issued.confirm \cup kb.confirm]
            /\ awaiting' = awaiting \ {suspended}
    /\ UNCHANGED <<task_id_counter, now, last, assigned, task_data, created, call, task_updates, fsm>>

\* handle_privacy_selection -> create_task for a task that has a responsible
\* user and a workgroup member besides its author.
CreateSharedTask ==
    /\ DOMAIN TASKS = {}
    /\ \E due_date \in DueDates \cup {NoDate} :
        TASKS' = (task_id_counter :>
                    create_task(task_id_counter, 1, due_date, 2, {3}, now))
    /\ task_id_counter' = advance_task_id_counter(task_id_counter)
    /\ assigned' = assigned \cup {task_id_counter}
    /\ issued' = NoButtons
    /\ last' = [op |-> "create", overdue |-> FALSE]
    /\ UNCHANGED <<now, task_data, created, call, sessions>>

HandlersNext ==
    \/ Tick
    \/ CreateSharedTask
    \/ HandlerWrites
    \/ HandlerResumes

HandlersSpec == Init /\ [][HandlersNext]_vars

(***************************************************************************)
(* Properties of the concurrent handlers                                   *)
(***************************************************************************)

\* What the mutation of a lifecycle handler writes: the statuses of the
\* participants other than the author, the pending set and its flag, the
\* executor, the due date and the completion timestamp.
mutation(task) ==
    [participant_statuses |->
        [participant_id \in non_author_participants(task) |->
            get_participant_status(task, participant_id)],
     pending_confirmations |-> task.pending_confirmations,
     awaiting_author_confirmation |-> task.awaiting_author_confirmation,
     current_executor_id |-> task.current_executor_id,
     due_date |-> task.due_date,
     completed_date |-> task.completed_date]

\* The fields of a task agree with each other as they do after any whole
\* mutation: the flag with the pending set, the executor with its ACTIVE
\* status and the author's entry with the derived status.
settled(task) ==
    /\ task.awaiting_author_confirmation <=> task.pending_confirmations # {}
    /\ task.current_executor_id # NoUser
        => get_participant_status(task, task.current_executor_id) = ST_ACTIVE
    /\ get_participant_status(task, task.author_id) = calculate_overall_status(task)

Registered ==
    <<
       [filter |-> "eq", pattern |-> <<"my", "_", "tasks">>,
        handler |-> "handle_tasks_list"],
       [filter |-> "eq", pattern |-> <<"all", "_", "tasks">>,
        handler |-> "handle_tasks_list"],
       [filter |-> "eq", pattern |-> <<"add", "_", "task">>,
        handler |-> "handle_add_task"],
       [filter |-> "eq", pattern |-> <<"cancel", "_", "task", "_", "creation">>,
        handler |-> "handle_cancel_task_creation"],
       [filter |-> "eq", pattern |-> <<"back", "_", "task", "_", "title">>,
        handler |-> "handle_back_title"],
       [filter |-> "eq", pattern |-> <<"back", "_", "task", "_", "description">>,
        handler |-> "handle_back_description"],
       [filter |-> "eq", pattern |-> <<"skip", "_", "due", "_", "date">>,
        handler |-> "handle_skip_due_date"],
       [filter |-> "startswith", pattern |-> <<"priority", "_">>,
        handler |-> "handle_priority_selection"],
       [filter |-> "startswith", pattern |-> <<"project", "_">>,
        handler |-> "handle_project_selection"],
       [filter |-> "startswith", pattern |-> <<"direction", "_">>,
        handler |-> "handle_direction_selection"],
       [filter |-> "startswith", pattern |-> <<"responsible", "_">>,
        handler |-> "handle_responsible_selection"],
       [filter |-> "eq", pattern |-> <<"done", "_", "responsible">>,
        handler |-> "handle_done_responsible"],
       [filter |-> "startswith", pattern |-> <<"workgroup", "_">>,
        handler |-> "handle_workgroup_selection"],
       [filter |-> "eq", pattern |-> <<"done", "_", "workgroup">>,
        handler |-> "handle_done_workgroup"],
       [filter |-> "startswith", pattern |-> <<"privacy", "_">>,
        handler |-> "handle_privacy_selection"],
       [filter |-> "startswith", pattern |-> <<"back", "_">>,
        handler |-> "handle_back_buttons"],
       [filter |-> "eq", pattern |-> <<"help">>,
        handler |-> "handle_help"],
       [filter |-> "startswith", pattern |-> <<"help", "_">>,
        handler |-> "handle_help_sections"],
       [filter |-> "startswith", pattern |-> <<"filter", "_">>,
        handler |-> "handle_task_filters"],
       [filter |-> "startswith", pattern |-> <<"tasks", "_", "page", ":">>,
        handler |-> "handle_tasks_page"],
       [filter |-> "startswith", pattern |-> <<"task", "_", "detail", ":">>,
        handler |-> "handle_task_detail"],
       [filter |-> "startswith", pattern |-> <<"tasks", "_", "filters", ":">>,
        handler |-> "handle_tasks_filters_menu"],
       [filter |-> "startswith", pattern |-> <<"delete", "_", "task", ":">>,
        handler |-> "handle_delete_task"],
       [filter |-> "startswith", pattern |-> <<"back", "_", "task", "_", "detail", ":">>,
        handler |-> "handle_back_task_detail"],
       [filter |-> "startswith", pattern |-> <<"take", "_", "task">>,
        handler |-> "handle_take_task"],
       [filter |-> "startswith", pattern |-> <<"pause", "_", "task">>,
        handler |-> "handle_pause_task"],
       [filter |-> "startswith", pattern |-> <<"complete", "_", "task">>,
        handler |-> "handle_complete_task"],
       [filter |-> "startswith", pattern |-> <<"reset", "_", "task", "_", "request">>,
        handler |-> "handle_reset_task_request"],
       [filter |-> "startswith", pattern |-> <<"reset", "_", "task", "_", "cancel">>,
        handler |-> "handle_reset_task_cancel"],
       [filter |-> "startswith", pattern |-> <<"reset", "_", "task", "_", "confirm">>,
        handler |-> "handle_reset_task_confirm"],
       [filter |-> "startswith", pattern |-> <<"remind", "_", "all">>,
        handler |-> "handle_remind_all"],
       [filter |-> "startswith", pattern |-> <<"remind", "_", "one", ":">>,
        handler |-> "handle_remind_one"],
       [filter |-> "startswith", pattern |-> <<"complete", "_", "task", "_", "author">>,
        handler |-> "handle_author_completion"],
       [filter |-> "startswith", pattern |-> <<"postpone", "_", "task">>,
        handler |-> "handle_postpone_task"],
       [filter |-> "startswith", pattern |-> <<"confirm", "_", "completion", ":">>,
        handler |-> "handle_confirm_completion"],
       [filter |-> "startswith", pattern |-> <<"return", "_", "task">>,
        handler |-> "handle_return_task"]
    >>

\* F.data == pattern, F.data.startswith(pattern)
filter_accepts(registered, data) ==
    IF registered.filter = "eq" THEN data = registered.pattern
    ELSE /\ Len(data) >= Len(registered.pattern)
         /\ SubSeq(data, 1, Len(registered.pattern)) = registered.pattern

Accepting(data) == {i \in DOMAIN Registered : filter_accepts(Registered[i], data)}

\* The handler the dispatcher runs: the first registered one that accepts.
route(data) ==
    IF Accepting(data) = {} THEN "unhandled"
    ELSE Registered[CHOOSE i \in Accepting(data) :
                        \A j \in Accepting(data) : i <= j].handler

\* The handler written for the data: the one whose filter names the longest
\* part of it.
written_for(data) ==
    IF Accepting(data) = {} THEN "unhandled"
    ELSE Registered[CHOOSE i \in Accepting(data) :
                        \A j \in Accepting(data) :
                            Len(Registered[i].pattern) >= Len(Registered[j].pattern)].handler

TaskIdTexts == {"1", "2"}
Views == {"all", "my"}
UserIdTexts == {"1", "2", "3"}

\* {task_id}:{view}:{filter_type}:{page} of task_detail_kb and its
\* relatives.
context(task_id, view) == <<task_id, ":", view, ":", "all", ":", "1">>

\* The actions whose callback data is f"{action}:{context}".
TaskActions ==
    {<<"task", "_", "detail">>, <<"take", "_", "task">>, <<"pause", "_", "task">>,
     <<"complete", "_", "task">>, <<"complete", "_", "task", "_", "author">>,
     <<"reset", "_", "task", "_", "request">>, <<"reset", "_", "task", "_", "confirm">>,
     <<"reset", "_", "task", "_", "cancel">>, <<"remind", "_", "all">>,
     <<"postpone", "_", "task">>, <<"return", "_", "task">>,
     <<"delete", "_", "task">>, <<"back", "_", "task", "_", "detail">>}

\* The actions that name a participant as well:
\* f"{action}:{task_id}:{participant_id}:{view}:{filter_type}:{page}".
ParticipantActions ==
    {<<"remind", "_", "one">>, <<"confirm", "_", "completion">>}

\* The callback data without parameters.
StaticCallbackData ==
    {<<"my", "_", "tasks">>,
     <<"all", "_", "tasks">>,
     <<"add", "_", "task">>,
     <<"help">>,
     <<"cancel", "_", "task", "_", "creation">>,
     <<"skip", "_", "due", "_", "date">>,
     <<"back", "_", "main">>,
     <<"back", "_", "help">>,
     <<"back", "_", "help", "_", "tasks">>,
     <<"back", "_", "help", "_", "statuses">>,
     <<"back", "_", "task", "_", "creation">>,
     <<"back", "_", "task", "_", "title">>,
     <<"back", "_", "task", "_", "description">>,
     <<"back", "_", "direction">>,
     <<"back", "_", "responsible">>,
     <<"back", "_", "workgroup">>,
     <<"priority", "_", "low">>,
     <<"priority", "_", "medium">>,
     <<"priority", "_", "high">>,
     <<"priority", "_", "critical">>,
     <<"privacy", "_", "public">>,
     <<"privacy", "_", "private">>,
     <<"done", "_", "responsible">>,
     <<"done", "_", "workgroup">>,
     <<"help", "_", "tasks">>,
     <<"help", "_", "statuses">>,
     <<"help", "_", "filter">>,
     <<"help", "_", "by", "_", "status">>,
     <<"help", "_", "by", "_", "priority">>,
     <<"help", "_", "add", "_", "tasks">>,
     <<"filter", "_", "all">>,
     <<"filter", "_", "active">>,
     <<"filter", "_", "review">>,
     <<"filter", "_", "completed">>}

\* Every callback data string the keyboards of bot.py emit.
EmittedCallbackData ==
    StaticCallbackData
    \cup {action \o <<":">> \o context(task_id, view) :
            action \in TaskActions, task_id \in TaskIdTexts, view \in Views}
    \cup {action \o <<":", task_id, ":", participant_id, ":">> \o <<view, ":", "all", ":", "1">> :
            action \in ParticipantActions, task_id \in TaskIdTexts,
            participant_id \in UserIdTexts, view \in Views}
    \cup {<<action, "_", user_id>> :
            action \in {"responsible", "workgroup"}, user_id \in UserIdTexts}
    \cup {<<action, "_", "1">> : action \in {"project", "direction"}}
    \cup {<<"tasks", "_", "filters", ":", view>> : view \in Views}
    \cup {<<"tasks", "_", "page", ":", view, ":", "all", ":", "1">> : view \in Views}

RouteCalls ==
    {[fn |-> "route", done |-> FALSE, data |-> data, result |-> "none"] :
        data \in EmittedCallbackData}

RoutingInit ==
    /\ TASKS = << >>
    /\ task_id_counter = 1
    /\ now = 0
    /\ issued = NoButtons
    /\ last = [op |-> "none", overdue |-> FALSE]
    /\ assigned = {}
    /\ task_data = << >>
    /\ created = << >>
    /\ call \in RouteCalls
    /\ task_updates = << >>
    /\ fsm = << >>
    /\ awaiting = {}

\* A button is pressed and the dispatcher picks the handler.
Dispatch ==
    /\ call.fn = "route"
    /\ Returns(route(call.data))

RoutingNext == Dispatch

RoutingSpec == RoutingInit /\ [][RoutingNext]_vars

\* C36: every callback data string the keyboards emit is handled by the
\* handler written for it, not by one registered earlier for a shorter
\* prefix.
C36_RoutingUnambiguous ==
    call.fn = "route" /\ call.done => call.result = written_for(call.data)

(***************************************************************************)
(* The postponement dialogue (bot.py handle_postpone_task,                 *)
(* process_postpone_date, process_postpone_reason and the two buttons of   *)
(* its prompts).  fsm maps a user to the state of their dialogue and       *)
(* task_updates to the task being postponed and the date typed so far.     *)
(* PostponeSpec starts from a store that holds one task with a responsible *)
(* user and a workgroup member; last records the latest step and the users *)
(* who pressed the Back button of the dialogue since they last opened it.  *)
(***************************************************************************)

PostponeInit ==
    /\ \E due_date \in DueDates \cup {NoDate} :
        TASKS = (1 :> create_task(1, 1, due_date, 2, {3}, 0))
    /\ task_id_counter = 2
    /\ now = 0
    /\ issued = NoButtons
    /\ last = [op |-> "create", user_id |-> 1, cancelled |-> {}]
    /\ assigned = {1}
    /\ task_data = << >>
    /\ created = << >>
    /\ call = NoCall
    /\ task_updates = << >>
    /\ fsm = << >>
    /\ awaiting = {}

\* handle_postpone_task: the dialogue opens and asks for the new date.
HandlePostponeTask ==
    /\ \E id \in DOMAIN TASKS, user_id \in Users :
        /\ postpone_task_allowed(TASKS[id], user_id)
        /\ fsm' = (user_id :> "waiting_for_postpone_date") @@ fsm
        /\ task_updates' = (user_id :> [task_id |-> id, new_due_date |-> NoDate])
                               @@ task_updates
        /\ last' = [op |-> "postpone_task", user_id |-> user_id,
                    cancelled |-> last.cancelled \ {user_id}]
    /\ UNCHANGED <<TASKS, task_id_counter, now, issued, assigned, task_data, created, call, awaiting>>

\* process_postpone_date: a text message in the state
\* waiting_for_postpone_date; parsed is parse_date(message.text), NoDate
\* for a text that is no date.
ProcessPostponeDate ==
    /\ \E user_id \in DOMAIN fsm, parsed \in DueDates \cup {NoDate} :
        /\ fsm[user_id] = "waiting_for_postpone_date"
        /\ IF user_id \notin DOMAIN task_updates
           THEN /\ fsm' = without(fsm, user_id)
                /\ UNCHANGED task_updates
           ELSE IF parsed = NoDate
           THEN UNCHANGED <<fsm, task_updates>>
           ELSE /\ task_updates' = [task_updates EXCEPT ![user_id].new_due_date = parsed]
                /\ fsm' = [fsm EXCEPT ![user_id] = "waiting_for_postpone_reason"]
        /\ last' = [last EXCEPT !.op = "process_postpone_date", !.user_id = user_id]
    /\ UNCHANGED <<TASKS, task_id_counter, now, issued, assigned, task_data, created, call, awaiting>>

\* process_postpone_reason: a text message in the state
\* waiting_for_postpone_reason; the reason may be blank.
ProcessPostponeReason ==
    /\ \E user_id \in DOMAIN fsm, blank \in BOOLEAN :
        /\ fsm[user_id] = "waiting_for_postpone_reason"
        /\ IF \/ user_id \notin DOMAIN task_updates
              \/ task_updates[user_id].new_due_date = NoDate
              \/ (~blank /\ task_updates[user_id].task_id \notin DOMAIN TASKS)
           THEN /\ fsm' = without(fsm, user_id)
                /\ task_updates' = without(task_updates, user_id)
                /\ UNCHANGED TASKS
           ELSE IF blank
           THEN UNCHANGED <<TASKS, fsm, task_updates>>
           ELSE LET id == task_updates[user_id].task_id
                IN  /\ TASKS' = [TASKS EXCEPT ![id] =
                            process_postpone_reason(TASKS[id], user_id,
                                task_updates[user_id].new_due_date, now)]
                    /\ fsm' = without(fsm, user_id)
                    /\ task_updates' = without(task_updates, user_id)
        /\ last' = [last EXCEPT !.op = "process_postpone_reason", !.user_id = user_id]
    /\ UNCHANGED <<task_id_counter, now, issued, assigned, task_data, created, call, awaiting>>

\* The dialogue's buttons: "Назад" (back_task_detail:{context}) and
\* "Главная" (back_main).
PostponeButtons(task_id) ==
    {<<"back", "_", "task", "_", "detail", ":">> \o context(task_id, "all"),
     <<"back", "_", "main">>}

\* The task identifier in the text of a callback.
task_id_of(text) == CHOOSE id \in 1..MaxTaskId : ToString(id) = text

\* A button of the dialogue's prompt is pressed: the dispatcher routes the
\* callback data.  handle_back_task_detail clears the dialogue and renders
\* the card; handle_back_buttons strips "back_" and clears the dialogue in
\* its branch "main" only (which shows the main menu, refreshing every
\* task); for a back_to it has no branch for, it answers the callback and
\* does nothing else.
PressBack ==
    /\ \E user_id \in DOMAIN fsm :
       \E data \in PostponeButtons(ToString(task_updates[user_id].task_id)) :
        LET handler == route(data)
            back_to == SubSeq(data, 3, Len(data))
            id == task_id_of(data[7])
        IN  /\ CASE handler = "handle_back_task_detail" ->
                        /\ fsm' = without(fsm, user_id)
                        /\ task_updates' = without(task_updates, user_id)
                        /\ TASKS' = IF id \in DOMAIN TASKS
                                    THEN [TASKS EXCEPT ![id] = render_task_detail(TASKS[id], now)]
                                    ELSE TASKS
                 [] handler = "handle_back_buttons" /\ back_to = <<"main">> ->
                        /\ fsm' = without(fsm, user_id)
                        /\ task_updates' = without(task_updates, user_id)
                        /\ TASKS' = get_main_message(TASKS, now)
                 [] OTHER -> UNCHANGED <<TASKS, fsm, task_updates>>
            /\ last' = [op |-> handler, user_id |-> user_id,
                        cancelled |-> IF data[3] = "task"
                                      THEN last.cancelled \cup {user_id}
                                      ELSE last.cancelled]
    /\ UNCHANGED <<task_id_counter, now, issued, assigned, task_data, created, call, awaiting>>

PostponeNext ==
    \/ Tick
    \/ HandlePostponeTask
    \/ ProcessPostponeDate
    \/ ProcessPostponeReason
    \/ PressBack

PostponeSpec == PostponeInit /\ [][PostponeNext]_vars

\* C37: a user who pressed the Back button of the postpone dialog (and has
\* not opened the dialog again) has no dialogue state and no task_updates
\* entry, so that no text message of theirs is taken for a date or a reason.
C37_BackCancelsSession ==
    \A user_id \in last.cancelled :
        /\ user_id \notin DOMAIN fsm
        /\ user_id \notin DOMAIN task_updates

\* What follows: the user who pressed Back has typed a date and a reason,
\* and the task has the typed due date.
BackThenPostponed ==
    \E user_id \in last.cancelled :
        /\ last.op = "process_postpone_reason"
        /\ last.user_id = user_id
        /\ user_id \notin DOMAIN fsm
        /\ TASKS[1].due_date = 1
        /\ get_participant_status(TASKS[1], 3) = ST_PAUSED

(***************************************************************************)
(* Properties of the creation dialogue, continued                          *)
(***************************************************************************)

\* C38: one session of the creation dialogue creates at most one task.
C38_OneTaskPerSession ==
    \A user_id \in DOMAIN task_data :
        Cardinality(task_data[user_id].created_tasks) <= 1

(***************************************************************************)
(* The task list and the detail card as views of the store                 *)
(***************************************************************************)

\* get_user_tasks (tasks.py): the tasks that are not private or that
\* involve the user.  bot.py does not call it.
get_user_tasks(tasks, user_id) ==
    {id \in DOMAIN tasks :
        \/ ~tasks[id].is_private
        \/ user_id = tasks[id].author_id
        \/ user_id = tasks[id].responsible_user_id
        \/ user_id \in tasks[id].workgroup}

\* get_involved_tasks (tasks.py)
get_involved_tasks(tasks, user_id) ==
    {id \in DOMAIN tasks : is_user_involved(tasks[id], user_id)}

FilterTypes == {"all", "active", "review", "completed"}

\* filter_tasks (bot.py)
filter_tasks(tasks, ids, filter_type) ==
    CASE filter_type = "active" -> {id \in ids : tasks[id].status = ST_ACTIVE}
      [] filter_type = "review" -> {id \in ids : tasks[id].status = ST_IN_REVIEW}
      [] filter_type = "completed" -> {id \in ids : tasks[id].status = ST_COMPLETED}
      [] OTHER -> ids

\* handle_task_filters / handle_tasks_page: the tasks listed to user_id,
\* get_tasks_for_view(view, user_id) filtered by filter_tasks.
listed_tasks(tasks, view, filter_type, user_id, reference) ==
    LET refreshed == get_tasks_for_view(tasks, reference)
        ids == IF view = "my" THEN get_involved_tasks(refreshed, user_id)
               ELSE DOMAIN refreshed
    IN  filter_tasks(refreshed, ids, filter_type)

\* handle_task_detail: the card is rendered for whoever presses, if the
\* task exists.
detail_card_rendered(tasks, task_id, viewer_id) == task_id \in DOMAIN tasks

\* C39: a private task is never listed to, and its detail card never
\* rendered for, a user who is not its author, its responsible user or a
\* member of its workgroup, in any view and under any filter.
C39_PrivateTasksHidden ==
    \A id \in DOMAIN TASKS, user_id \in Users :
        (TASKS[id].is_private /\ ~is_user_involved(TASKS[id], user_id))
            => /\ \A view \in Views, filter_type \in FilterTypes :
                    id \notin listed_tasks(TASKS, view, filter_type, user_id, now)
               /\ ~detail_card_rendered(TASKS, id, user_id)

(***************************************************************************)
(* greeting.py: the greeting by time of day.  A time of day is the number  *)
(* of seconds since midnight in Moscow time; datetime.time values compare  *)
(* in that order.  The greetings are written in Latin letters.             *)
(***************************************************************************)

\* datetime.time(hour, minute, second)
time(hour, minute, second) == (hour * 60 + minute) * 60 + second

\* _build_time_ranges / TIME_RANGES
TIME_RANGES ==
    << [start |-> time(5, 0, 0), end |-> time(10, 59, 0), greeting |-> "Dobroe utro"],
       [start |-> time(11, 0, 0), end |-> time(16, 59, 0), greeting |-> "Dobryi den"],
       [start |-> time(17, 0, 0), end |-> time(22, 59, 0), greeting |-> "Dobryi vecher"],
       [start |-> time(23, 0, 0), end |-> time(23, 59, 0), greeting |-> "Dobroi nochi"],
       [start |-> time(0, 0, 0), end |-> time(4, 59, 0), greeting |-> "Dobroi nochi"] >>

Greetings == {TIME_RANGES[i].greeting : i \in DOMAIN TIME_RANGES}

DefaultGreeting == "Zdravstvuite"

\* TimeRange.includes
includes(time_range, dt) ==
    IF time_range.start <= time_range.end
    THEN time_range.start <= dt /\ dt <= time_range.end
    ELSE dt >= time_range.start \/ dt <= time_range.end

matching_ranges(dt) == {i \in DOMAIN TIME_RANGES : includes(TIME_RANGES[i], dt)}

\* determine_greeting: the greeting of the first range that includes dt,
\* the default when none does.
determine_greeting(dt) ==
    IF matching_ranges(dt) = {}
    THEN DefaultGreeting
    ELSE TIME_RANGES[CHOOSE i \in matching_ranges(dt) : \A j \in matching_ranges(dt) : i <= j].greeting

\* The minutes and seconds a call is made at: the edges and the middle of
\* an hour and of a minute.
CallMinutes == {0, 1, 30, 58, 59}
CallSeconds == {0, 30, 59}

GreetingCalls ==
    {[fn |-> "determine_greeting", done |-> FALSE, dt |-> time(hour, minute, second), result |-> "none"] :
        hour \in 0 .. 23, minute \in CallMinutes, second \in CallSeconds}

GreetingInit ==
    /\ TASKS = << >>
    /\ task_id_counter = 1
    /\ now = 0
    /\ issued = NoButtons
    /\ last = [op |-> "none", overdue |-> FALSE]
    /\ assigned = {}
    /\ task_data = << >>
    /\ created = << >>
    /\ call \in GreetingCalls
    /\ task_updates = << >>
    /\ fsm = << >>
    /\ awaiting = {}

DetermineGreeting ==
    /\ call.fn = "determine_greeting"
    /\ Returns(determine_greeting(call.dt))

GreetingNext == DetermineGreeting

GreetingSpec == GreetingInit /\ [][GreetingNext]_vars

\* C40: determine_greeting is total over the day: at every time of day, at
\* second resolution, exactly one configured range matches and one of the
\* four greetings is returned, never the default.
C40_GreetingTotal ==
    call.fn = "determine_greeting" /\ call.done
        => /\ Cardinality(matching_ranges(call.dt)) = 1
           /\ call.result \in Greetings
           /\ call.result # DefaultGreeting

====
